---------------------------- MODULE Spec2Model ----------------------------
(***************************************************************************)
(* A model of TaskSplitter (src/agents/task_splitter.py): the analysis of  *)
(* a task into sub-tasks, the dependency scheduler (ordering and levels),  *)
(* the three execution strategies and the execute_task boundary.           *)
(*                                                                         *)
(* Conventions.  A sub-task id is the string the code builds               *)
(* ("subtask_1", ..., "main_task", "fallback_task").  A dependency list is *)
(* modelled by the set of ids it holds: the code only tests membership     *)
(* and iterates over it.  The strategy strings keep the code's French      *)
(* literals without their accents ("sequentiel" stands for "séquentiel").  *)
(***************************************************************************)
EXTENDS Integers, Sequences, FiniteSets, TLC

VARIABLES
    subtasks,   \* the batch a scheduler function or a strategy was called with
    sorter,     \* _sort_subtasks_by_dependencies: its locals, its position and
                \* the number of passes of its while loop so far
    leveller,   \* _analyze_dependency_levels: its locals and position
    analyzer,   \* analyze_task_complexity: its arguments, the remote response
                \* and what it returned
    exec,       \* _execute_sequential, _execute_parallel, _execute_hybrid
    run,        \* execute_task: its position, locals and the returned ExecutionResult
    clients,    \* which API clients the constructor created
    execution_stats, \* the counters of self.execution_stats
    subtask_call, \* _execute_subtask: its arguments, the position of its retry
                 \* loop, the remote calls and the waits it made, its result
    scorer,      \* _validate_coherence: its arguments, the remote response and
                 \* the score it returned
    reader,      \* get_execution_stats: the snapshots its caller received
                 \* since the last run of execute_task
    detector     \* detect_llm_config of orchestrate.py: the environment it
                 \* read and the pair it returned

vars == <<subtasks, sorter, leveller, analyzer, exec, run, clients, execution_stats,
          subtask_call, scorer, reader, detector>>

(***************************************************************************)
(* Bounds of the model.                                                    *)
(***************************************************************************)
\* the largest batch given to the scheduler functions and the strategies
MaxTasks == 3
\* the largest number of declared dependencies in one batch, all tasks together
MaxEdges == 3
\* the longest "subtasks" list of the remote answers analyze_task_complexity
\* is explored with
MaxProposed == 2
\* the largest batch given to the three strategies, and the largest number
\* of dependencies declared in it
MaxBatch == 3
MaxDeclared == 2
\* the largest plan of sub-tasks in the runs of execute_task, the largest
\* number of dependencies declared in it, and the number of runs
MaxPlanned == 2
MaxPlannedDeps == 1
MaxRuns == 2
\* the largest max_retries an orchestrator of the model is built with
MaxRetriesArg == 4
\* the sub-tasks of a batch handed to a strategy whose own context cannot
\* be serialised
MaxUnserializable == 1
\* the longest result list _validate_coherence is called with
MaxScored == 3
\* the longest value of an API key variable of the environment
MaxKeyLen == 3
\* calls of get_execution_stats between two runs of execute_task
MaxReads == 3

(***************************************************************************)
(* Data model.                                                             *)
(***************************************************************************)
\* id=f"subtask_{i+1}" for the i-th proposed sub-task (i from 0)
SubtaskId(i) == "subtask_" \o ToString(i)

\* an id that names no task of any batch (the code numbers tasks from 1)
DanglingId == SubtaskId(0)

\* priority=subtask_data.get("priority", 5)
DefaultPriority == 5

\* priority=1 of the synthetic main task and of the fallback task
MainPriority == 1

\* the priorities the batches of the model are drawn with
Priorities == {MainPriority, DefaultPriority}

Null == "None"

\* The planning attributes of the SubTask dataclass.  The runtime ones
\* (status, result, error) are kept by the strategy that sets them.
SubTask(id, title, description, estimated_lines, dependencies, priority, context) ==
    [id |-> id, title |-> title, description |-> description,
     estimated_lines |-> estimated_lines, dependencies |-> dependencies,
     priority |-> priority, context |-> context]

(***************************************************************************)
(* JSON objects are records that hold a field only when the object has the *)
(* key: d.get(k, default) and d[k] (a KeyError when absent) are told apart.*)
(***************************************************************************)
Has(d, k) == k \in DOMAIN d

Get(d, k, default) == IF Has(d, k) THEN d[k] ELSE default

\* the object holding the keys of opt whose option is <<value>> and not <<>>
ObjectOf(opt) == [k \in {x \in DOMAIN opt : opt[x] # <<>>} |-> opt[k][1]]

\* subtasks.append(SubTask(id=f"subtask_{i+1}", ...)) for each proposed entry
SubtasksFromData(proposed, context) ==
    [i \in 1..Len(proposed) |->
        SubTask(SubtaskId(i), proposed[i].title, proposed[i].description,
                proposed[i].estimated_lines,
                Get(proposed[i], "dependencies", {}),
                Get(proposed[i], "priority", DefaultPriority),
                context)]

(***************************************************************************)
(* The batches the model is explored with: n tasks subtask_1..subtask_n,   *)
(* whose dependency lists hold ids of the batch (their own included) and   *)
(* the dangling id, with at most MaxEdges declared dependencies in all.    *)
(***************************************************************************)
PossibleEdges(n) == (1..n) \X (0..n)

EdgeSets(n, maxEdges) ==
    {E \in SUBSET PossibleEdges(n) : Cardinality(E) <= maxEdges}

\* the "subtasks" list of a remote analysis proposing n tasks with edges E
ProposalOf(n, E, prio) ==
    [i \in 1..n |->
        [title |-> "a title", description |-> "a description", estimated_lines |-> 100,
         dependencies |-> {SubtaskId(e[2]) : e \in {d \in E : d[1] = i}},
         priority |-> prio[i]]]

\* the batch analyze_task_complexity builds from it
BatchOf(n, E, prio) == SubtasksFromData(ProposalOf(n, E, prio), Null)

Ids(batch) == {batch[i].id : i \in 1..Len(batch)}

TaskById(batch, id) == batch[CHOOSE i \in 1..Len(batch) : batch[i].id = id]

(***************************************************************************)
(* analyze_task_complexity and _create_fallback_analysis                   *)
(***************************************************************************)
\* the values of the TaskComplexity enum
ComplexityValues == {"simple", "moderate", "complex", "very_complex"}

\* the strategy strings execute_task compares with
Sequentiel == "sequentiel"
Parallele == "parallele"
Hybride == "hybride"
Strategies == {Sequentiel, Parallele, Hybride}

\* a context json.dumps cannot serialise
Unserializable == "unserializable"
Contexts == {Null, "a context", Unserializable}

Descriptions == {"write the python module", "summarise the report"}

\* estimated_total_lines=300 and estimated_duration=30 of the fallback
FallbackLines == 300
FallbackDuration == 30

\* analysis_data.get("estimated_duration", 30)
DefaultDuration == 30

\* (a fallback whose strategy is the English word, which execute_task does
\* not compare with)
CreateFallbackAnalysis_English(task_description, context) ==
    [complexity |-> "moderate", estimated_total_lines |-> FallbackLines,
     requires_splitting |-> FALSE,
     subtasks |-> <<SubTask("fallback_task", "Tache a traiter", task_description,
                            FallbackLines, {}, MainPriority, context)>>,
     execution_strategy |-> "sequential", estimated_duration |-> FallbackDuration]

CreateFallbackAnalysis(task_description, context) ==
    [complexity |-> "moderate", estimated_total_lines |-> FallbackLines,
     requires_splitting |-> FALSE,
     subtasks |-> <<SubTask("fallback_task", "Tache a traiter", task_description,
                            FallbackLines, {}, MainPriority, context)>>,
     execution_strategy |-> Sequentiel, estimated_duration |-> FallbackDuration]

\* TaskComplexity(value) raises ValueError unless value is one of the enum
ValidComplexity(value) == value \in ComplexityValues

\* subtask_data["title"], ["description"], ["estimated_lines"] raise KeyError
SubtaskDataOk(subtask_data) ==
    Has(subtask_data, "title") /\ Has(subtask_data, "description")
        /\ Has(subtask_data, "estimated_lines")

\* does lines 202-240 raise on the parsed object analysis_data
ParseRaises(analysis_data) ==
    \/ ~Has(analysis_data, "complexity")
    \/ ~ValidComplexity(analysis_data.complexity)
    \/ ~Has(analysis_data, "requires_splitting")
    \/ \E i \in 1..Len(Get(analysis_data, "subtasks", <<>>)) :
           ~SubtaskDataOk(analysis_data.subtasks[i])
    \/ ~Has(analysis_data, "estimated_total_lines")

\* lines 202-240 when nothing raises
ParseAnalysis(task_description, context, analysis_data) ==
    LET proposed == SubtasksFromData(Get(analysis_data, "subtasks", <<>>), context)
        main == SubTask("main_task", "Tache principale", task_description,
                        analysis_data.estimated_total_lines, {}, MainPriority, context)
    IN  [complexity |-> analysis_data.complexity,
         estimated_total_lines |-> analysis_data.estimated_total_lines,
         requires_splitting |-> analysis_data.requires_splitting,
         subtasks |-> IF ~analysis_data.requires_splitting /\ proposed = <<>>
                      THEN <<main>> ELSE proposed,
         execution_strategy |-> Get(analysis_data, "execution_strategy", Sequentiel),
         estimated_duration |-> Get(analysis_data, "estimated_duration", DefaultDuration)]

\* _call_ai_api(prompt, provider): the client of the provider must exist, and
\* then the remote service answers or fails
ProviderAvailable(provider, cl) ==
    \/ provider = "claude" /\ cl.anthropic
    \/ provider = "gpt" /\ cl.openai

\* the try block of analyze_task_complexity (lines 197-249) on the answer
\* of the remote service; response.kind is "raise" or "text"
AnalysisOf(task_description, context, cl, response) ==
    IF \/ ~ProviderAvailable("claude", cl)
       \/ response.kind = "raise"
       \/ ~response.json
       \/ ParseRaises(response.data)
    THEN CreateFallbackAnalysis(task_description, context)
    ELSE ParseAnalysis(task_description, context, response.data)

\* the if / elif / else of execute_task that picks the strategy (lines 300-309)
StrategyPath(execution_strategy) ==
    IF execution_strategy = Sequentiel THEN "sequential"
    ELSE IF execution_strategy = Parallele THEN "parallel"
    ELSE "hybrid"

(***************************************************************************)
(* What the remote analysis may answer.                                    *)
(***************************************************************************)
RemoteRaises == [kind |-> "raise", json |-> FALSE, data |-> <<>>]
NotJson == [kind |-> "text", json |-> FALSE, data |-> <<>>]
JsonObject(data) == [kind |-> "text", json |-> TRUE, data |-> data]

\* entries of a proposed "subtasks" list: complete, without the optional
\* keys, and without a required key
SubtaskDataSamples ==
    {[title |-> "a title", description |-> "a description", estimated_lines |-> 100,
      dependencies |-> {SubtaskId(1)}, priority |-> MainPriority],
     [title |-> "a title", description |-> "a description", estimated_lines |-> 100],
     [description |-> "a description", estimated_lines |-> 100]}

RECURSIVE ListsUpTo(_, _)
ListsUpTo(S, n) ==
    IF n = 0 THEN {<<>>}
    ELSE ListsUpTo(S, n - 1) \cup
         {Append(l, x) : l \in {m \in ListsUpTo(S, n - 1) : Len(m) = n - 1}, x \in S}

(***************************************************************************)
(* _sort_subtasks_by_dependencies                                          *)
(***************************************************************************)
\* (a scheduler that takes every task as ready)
Ready_Always(task, completed_ids) == TRUE

\* all(dep in completed_ids for dep in task.dependencies)
Ready(task, completed_ids) == task.dependencies \subseteq completed_ids

\* (a scheduler without the forced pick of the first remaining task)
ReadyTasks_NoForcedPick(remaining, completed_ids) ==
    LET IsReady(t) == Ready(t, completed_ids)
    IN  SelectSeq(remaining, IsReady)

\* the ready_tasks list of one iteration, in the order of remaining_tasks
ReadyTasks(remaining, completed_ids) ==
    LET IsReady(t) == Ready(t, completed_ids)
        ready == SelectSeq(remaining, IsReady)
    IN  IF ready = <<>> THEN <<remaining[1]>> ELSE ready

\* list.sort(key=lambda t: t.priority): a stable sort by ascending priority
RECURSIVE InsertByPriority(_, _)
InsertByPriority(sortedSeq, t) ==
    IF sortedSeq = <<>> THEN <<t>>
    ELSE IF Head(sortedSeq).priority <= t.priority
         THEN <<Head(sortedSeq)>> \o InsertByPriority(Tail(sortedSeq), t)
         ELSE <<t>> \o sortedSeq

RECURSIVE SortByPriority(_)
SortByPriority(s) ==
    IF s = <<>> THEN <<>>
    ELSE InsertByPriority(SortByPriority(SubSeq(s, 1, Len(s) - 1)), s[Len(s)])

\* list.remove(task): drops the first element equal to task
RECURSIVE RemoveFirst(_, _)
RemoveFirst(s, t) ==
    IF s = <<>> THEN <<>>
    ELSE IF Head(s) = t THEN Tail(s)
         ELSE <<Head(s)>> \o RemoveFirst(Tail(s), t)

RECURSIVE RemoveAll(_, _)
RemoveAll(s, ts) ==
    IF ts = <<>> THEN s ELSE RemoveAll(RemoveFirst(s, Head(ts)), Tail(ts))

\* one pass of the while loop over (sorted_tasks, remaining_tasks, completed_ids)
SortIteration(st) ==
    LET ready == SortByPriority(ReadyTasks(st.remaining_tasks, st.completed_ids))
    IN  [sorted_tasks    |-> st.sorted_tasks \o ready,
         remaining_tasks |-> RemoveAll(st.remaining_tasks, ready),
         completed_ids   |-> st.completed_ids \cup Ids(ready),
         forced          |-> st.forced \/
             ~\E i \in 1..Len(st.remaining_tasks) :
                 Ready(st.remaining_tasks[i], st.completed_ids)]

SortStart(batch) ==
    [sorted_tasks |-> <<>>, remaining_tasks |-> batch, completed_ids |-> {},
     forced |-> FALSE]

RECURSIVE SortLoop(_)
SortLoop(st) == IF st.remaining_tasks = <<>> THEN st ELSE SortLoop(SortIteration(st))

\* the list the function returns
SortSubtasksByDependencies(batch) == SortLoop(SortStart(batch)).sorted_tasks

(***************************************************************************)
(* _calculate_task_level and _analyze_dependency_levels                    *)
(*                                                                         *)
(* The recursion memoises a task only after its dependencies returned, so  *)
(* a call chain that comes back to a task of the chain never ends: Python  *)
(* raises RecursionError.  A chain deeper than the batch is long repeats a *)
(* task, so the model raises exactly there.                                *)
(***************************************************************************)
Max2(a, b) == IF a >= b THEN a ELSE b

\* task_levels[task.id] = level
SetLevel(task_levels, id, level) ==
    [x \in DOMAIN task_levels \cup {id} |-> IF x = id THEN level ELSE task_levels[x]]

NoLevels == [x \in {} |-> 0]

\* (a level computation that takes the smallest level of the dependencies)
DepLevelsCombine_Min(max_dep_level, dep_level) ==
    IF max_dep_level < 0 \/ dep_level < max_dep_level THEN dep_level ELSE max_dep_level

\* max_dep_level = max(max_dep_level, dep_level)
DepLevelsCombine(max_dep_level, dep_level) == Max2(max_dep_level, dep_level)

RECURSIVE CalculateTaskLevel(_, _, _, _)
RECURSIVE DepLevels(_, _, _, _)

\* the for loop over task.dependencies: acc holds max_dep_level and task_levels
DepLevels(deps, batch, acc, depth) ==
    IF deps = {} \/ acc.raised THEN acc
    ELSE LET dep_id == CHOOSE d \in deps : TRUE
             rest   == deps \ {dep_id}
         IN  IF dep_id \notin Ids(batch)
             THEN DepLevels(rest, batch, acc, depth)
             ELSE LET c == CalculateTaskLevel(dep_id, batch, acc.task_levels, depth)
                  IN  DepLevels(rest, batch,
                          [max_dep_level |-> DepLevelsCombine(acc.max_dep_level, c.level),
                           task_levels   |-> c.task_levels,
                           raised        |-> c.raised], depth)

\* (a level computation that memoises a task at level 0 before it resolves
\* its dependencies, which breaks the cycles)
CalculateTaskLevel_MemoFirst(id, batch, task_levels, depth) ==
    IF id \in DOMAIN task_levels
    THEN [level |-> task_levels[id], task_levels |-> task_levels, raised |-> FALSE]
    ELSE IF TaskById(batch, id).dependencies = {}
    THEN [level |-> 0, task_levels |-> SetLevel(task_levels, id, 0), raised |-> FALSE]
    ELSE LET r == DepLevels(TaskById(batch, id).dependencies, batch,
                      [max_dep_level |-> -1,
                       task_levels |-> SetLevel(task_levels, id, 0),
                       raised |-> FALSE], depth + 1)
         IN  [level |-> r.max_dep_level + 1,
              task_levels |-> SetLevel(r.task_levels, id, r.max_dep_level + 1),
              raised |-> FALSE]

\* _calculate_task_level(task, all_tasks, task_levels), at call depth `depth`
CalculateTaskLevel(id, batch, task_levels, depth) ==
    IF depth > Len(batch)
    THEN [level |-> -1, task_levels |-> task_levels, raised |-> TRUE]
    ELSE IF id \in DOMAIN task_levels
    THEN [level |-> task_levels[id], task_levels |-> task_levels, raised |-> FALSE]
    ELSE IF TaskById(batch, id).dependencies = {}
    THEN [level |-> 0, task_levels |-> SetLevel(task_levels, id, 0), raised |-> FALSE]
    ELSE LET r == DepLevels(TaskById(batch, id).dependencies, batch,
                      [max_dep_level |-> -1, task_levels |-> task_levels,
                       raised |-> FALSE], depth + 1)
         IN  IF r.raised
             THEN [level |-> -1, task_levels |-> r.task_levels, raised |-> TRUE]
             ELSE [level |-> r.max_dep_level + 1,
                   task_levels |-> SetLevel(r.task_levels, id, r.max_dep_level + 1),
                   raised |-> FALSE]

\* levels[level].append(task) on a defaultdict(list): a new key goes last
AppendToLevel(levels, level, task) ==
    IF \E k \in 1..Len(levels) : levels[k].level = level
    THEN [k \in 1..Len(levels) |->
             IF levels[k].level = level
             THEN [level |-> level, tasks |-> Append(levels[k].tasks, task)]
             ELSE levels[k]]
    ELSE Append(levels, [level |-> level, tasks |-> <<task>>])

LevelStart == [levels |-> <<>>, task_levels |-> NoLevels, next |-> 1, raised |-> FALSE]

\* one pass of the for loop of _analyze_dependency_levels, over subtasks[next]
LevelIteration(batch, st) ==
    LET task == batch[st.next]
        c    == CalculateTaskLevel(task.id, batch, st.task_levels, 1)
    IN  IF c.raised
        THEN [st EXCEPT !.raised = TRUE, !.task_levels = c.task_levels]
        ELSE [levels      |-> AppendToLevel(st.levels, c.level, task),
              task_levels |-> SetLevel(c.task_levels, task.id, c.level),
              next        |-> st.next + 1,
              raised      |-> FALSE]

RECURSIVE LevelLoop(_, _)
LevelLoop(batch, st) ==
    IF st.raised \/ st.next > Len(batch) THEN st
    ELSE LevelLoop(batch, LevelIteration(batch, st))

\* what _analyze_dependency_levels returns: the dict as the sequence of its
\* items in insertion order, or raised when the recursion never ends
AnalyzeDependencyLevels(batch) == LevelLoop(batch, LevelStart)

(***************************************************************************)
(* The scheduler run step by step: one action per pass of the while loop.  *)
(***************************************************************************)
Idle == [pc |-> "idle"]

\* __init__ raises unless one of the two clients was created (lines 137-138)
ClientConfigs ==
    {c \in [anthropic : BOOLEAN, openai : BOOLEAN] : c.anthropic \/ c.openai}

\* the state after construction: nothing has been called yet
Init ==
    /\ subtasks = <<>>
    /\ sorter = Idle
    /\ leveller = Idle
    /\ analyzer = Idle
    /\ exec = Idle
    /\ run = Idle
    /\ clients \in ClientConfigs
    /\ execution_stats = [tasks_processed |-> 0, subtasks_created |-> 0,
                          successful_executions |-> 0, failed_executions |-> 0,
                          total_execution_time |-> 0]
    /\ subtask_call = Idle
    /\ scorer = Idle
    /\ reader = Idle
    /\ detector = Idle

\* a call of _sort_subtasks_by_dependencies(subtasks): lines 775-777
SortCall ==
    /\ sorter.pc = "idle"
    /\ \E n \in 0..MaxTasks : \E E \in EdgeSets(n, MaxEdges) :
         \E p \in [1..n -> Priorities] : subtasks' = BatchOf(n, E, p)
    /\ sorter' = [pc |-> "loop", st |-> SortStart(subtasks'), passes |-> 0]
    /\ UNCHANGED <<leveller, analyzer, exec, run, clients, execution_stats, subtask_call, scorer, reader, detector>>

SortPass ==
    /\ sorter.pc = "loop"
    /\ sorter.st.remaining_tasks # <<>>
    /\ sorter' = [sorter EXCEPT !.st = SortIteration(sorter.st),
                                !.passes = sorter.passes + 1]
    /\ UNCHANGED <<subtasks, leveller, analyzer, exec, run, clients, execution_stats, subtask_call, scorer, reader, detector>>

SortReturn ==
    /\ sorter.pc = "loop"
    /\ sorter.st.remaining_tasks = <<>>
    /\ sorter' = [sorter EXCEPT !.pc = "returned"]
    /\ UNCHANGED <<subtasks, leveller, analyzer, exec, run, clients, execution_stats, subtask_call, scorer, reader, detector>>

SortNext == SortCall \/ SortPass \/ SortReturn

SortSpec == Init /\ [][SortNext]_vars

(***************************************************************************)
(* The level analysis run step by step: one action per pass of its loop.   *)
(***************************************************************************)
\* a call of _analyze_dependency_levels(subtasks): lines 824-825
LevelCall ==
    /\ leveller.pc = "idle"
    /\ \E n \in 0..MaxTasks : \E E \in EdgeSets(n, MaxEdges) :
         subtasks' = BatchOf(n, E, [i \in 1..n |-> DefaultPriority])
    /\ leveller' = [pc |-> "loop", st |-> LevelStart]
    /\ UNCHANGED <<sorter, analyzer, exec, run, clients, execution_stats, subtask_call, scorer, reader, detector>>

LevelPass ==
    /\ leveller.pc = "loop"
    /\ ~leveller.st.raised
    /\ leveller.st.next <= Len(subtasks)
    /\ leveller' = [leveller EXCEPT !.st = LevelIteration(subtasks, leveller.st)]
    /\ UNCHANGED <<subtasks, sorter, analyzer, exec, run, clients, execution_stats, subtask_call, scorer, reader, detector>>

\* return dict(levels)
LevelReturn ==
    /\ leveller.pc = "loop"
    /\ ~leveller.st.raised
    /\ leveller.st.next > Len(subtasks)
    /\ leveller' = [leveller EXCEPT !.pc = "returned"]
    /\ UNCHANGED <<subtasks, sorter, analyzer, exec, run, clients, execution_stats, subtask_call, scorer, reader, detector>>

\* the RecursionError leaves the function
LevelRaise ==
    /\ leveller.pc = "loop"
    /\ leveller.st.raised
    /\ leveller' = [leveller EXCEPT !.pc = "raised"]
    /\ UNCHANGED <<subtasks, sorter, analyzer, exec, run, clients, execution_stats, subtask_call, scorer, reader, detector>>

LevelNext == LevelCall \/ LevelPass \/ LevelReturn \/ LevelRaise

LevelSpec == Init /\ [][LevelNext]_vars

(***************************************************************************)
(* analyze_task_complexity run on every answer of the remote service.      *)
(***************************************************************************)
\* the call builds the prompt: json.dumps(context or {}) at line 169 is
\* outside the try and raises TypeError on a context it cannot serialise
AnalyzeCall ==
    /\ analyzer.pc = "idle"
    /\ \E d \in Descriptions, c \in Contexts :
         analyzer' = [pc |-> IF c = Unserializable THEN "raised" ELSE "awaiting",
                      task_description |-> d, context |-> c]
    /\ UNCHANGED <<subtasks, sorter, leveller, exec, run, clients, execution_stats, subtask_call, scorer, reader, detector>>

AnalyzeFinish(response) ==
    /\ analyzer.pc = "awaiting"
    /\ analyzer' = [analyzer EXCEPT !.pc = "returned"] @@
           [response |-> response,
            analysis |-> AnalysisOf(analyzer.task_description, analyzer.context,
                                    clients, response)]
    /\ UNCHANGED <<subtasks, sorter, leveller, exec, run, clients, execution_stats, subtask_call, scorer, reader, detector>>

\* the remote call fails, or its client does not exist
AnalyzeRemoteFails == AnalyzeFinish(RemoteRaises)

\* the remote text is not JSON
AnalyzeNotJson ==
    /\ ProviderAvailable("claude", clients)
    /\ AnalyzeFinish(NotJson)

\* the JSON objects the remote analysis answers, with or without each key
JsonAnswers ==
    {JsonObject(ObjectOf(
         [complexity |-> c, estimated_total_lines |-> l, requires_splitting |-> r,
          subtasks |-> t, execution_strategy |-> e, estimated_duration |-> d])) :
        c \in {<<>>} \cup {<<v>> : v \in ComplexityValues \cup {"bogus"}},
        l \in {<<>>, <<600>>},
        r \in {<<>>, <<TRUE>>, <<FALSE>>},
        t \in {<<>>} \cup {<<x>> : x \in ListsUpTo(SubtaskDataSamples, MaxProposed)},
        e \in {<<>>} \cup {<<v>> : v \in Strategies \cup {"sequential"}},
        d \in {<<>>, <<45>>}}

\* the remote text is a JSON object
AnalyzeJson ==
    /\ analyzer.pc = "awaiting"
    /\ ProviderAvailable("claude", clients)
    /\ \E response \in JsonAnswers : AnalyzeFinish(response)

AnalyzeNext == AnalyzeCall \/ AnalyzeRemoteFails \/ AnalyzeNotJson \/ AnalyzeJson

AnalyzeSpec == Init /\ [][AnalyzeNext]_vars

(***************************************************************************)
(* _execute_subtask.  A text is modelled by where it comes from and by the *)
(* length of its stripped form, which is all the code looks at.            *)
(***************************************************************************)
\* the values of the AIProvider enum
Providers == {"claude", "gpt", "auto"}

\* the default of the max_retries argument of the constructor
max_retries == 3

\* len(result.strip()) < 10 makes a result invalid
MinResultLength == 10

\* the texts the remote service answers with: too short to be a valid
\* result, and long enough for every test of the code
ShortText == [kind |-> "answer", length |-> 5]
LongText == [kind |-> "answer", length |-> 60]
RemoteTexts == {ShortText, LongText}

\* a text of 55 characters, 10 of which are blanks before and after the rest
PaddedText == [kind |-> "answer", length |-> 55, padding |-> 10]

\* len(text.strip()): the length without the leading and trailing blanks
StrippedLength(text) == text.length - Get(text, "padding", 0)

\* a description of a sub-task written with capitals
CapitalDescription == "Fix the CODE of the parser"

\* description.lower(): the other descriptions of the model are written in
\* lower case
Lower(description) ==
    IF description = CapitalDescription THEN "fix the code of the parser"
    ELSE description

\* "code" in subtask.description.lower() or "python" in ...
MentionsCode(description) ==
    Lower(description) \in {"write the python module", "fix the code of the parser"}

\* (a selection that does not look at the clients)
SelectProvider_IgnoresClients(preferred, subtask, cl) ==
    IF preferred # "auto" THEN preferred
    ELSE IF MentionsCode(subtask.description) THEN "gpt" ELSE "claude"

\* _select_provider(preferred, subtask)
SelectProvider(preferred, subtask, cl) ==
    IF preferred # "auto" THEN preferred
    ELSE IF MentionsCode(subtask.description)
         THEN (IF cl.openai THEN "gpt" ELSE "claude")
         ELSE (IF cl.anthropic THEN "claude" ELSE "gpt")

\* _validate_subtask_result: only the emptiness and length test decides
ValidateSubtaskResult(subtask, result) ==
    StrippedLength(result) >= MinResultLength

\* the dict of a failed sub-task (lines 407-412, 443-448 and 580-585)
ErrorRecord(subtask_id, error) ==
    [subtask_id |-> subtask_id, success |-> FALSE, error |-> error]

\* str(e) of the exception the remote call raises on an attempt (from 0)
RemoteErrorMessage(attempt) == "remote error of attempt " \o ToString(attempt)

\* _execute_subtask when the remote call raises on the first `failures`
\* attempts and answers `text` on the next one.  Without a client for the
\* provider every attempt raises ValueError.
ExecuteSubtask(subtask, preferred, cl, failures, text) ==
    LET provider == SelectProvider(preferred, subtask, cl)
    IN  IF ~ProviderAvailable(provider, cl)
        THEN ErrorRecord(subtask.id, "Provider non disponible")
        ELSE IF failures >= max_retries
        THEN ErrorRecord(subtask.id, RemoteErrorMessage(max_retries - 1))
        ELSE [subtask_id |-> subtask.id,
              success |-> ValidateSubtaskResult(subtask, text),
              result |-> text, provider_used |-> provider]

(***************************************************************************)
(* The three strategies.  exec holds the locals of the running strategy:   *)
(* results, completed_tasks, the position of its loop, and for a gather    *)
(* the tasks it was given with what each has settled to so far.  status    *)
(* is the status attribute of the SubTask objects, by id.                  *)
(***************************************************************************)
\* completed_tasks = {}
NoResults == [x \in {} |-> <<>>]

NoException == [class |-> "none", message |-> ""]

\* the TypeError of json.dumps on a context it cannot serialise
TypeError == [class |-> "TypeError", message |-> "not JSON serializable"]

\* isinstance(result, Exception)
IsException(result) == Has(result, "class")

\* the RecursionError of a level computation that never ends
RecursionError == [class |-> "RecursionError",
                   message |-> "maximum recursion depth exceeded"]

\* the dict of a sub-task without a context of its own
EmptyDict == "{}"

\* the dicts the sub-tasks of a batch hold as context, each under the name
\* the sub-tasks know it by: the sub-tasks of an analysis were all given
\* the caller's dict (context=context, lines 213 and 228)
ContextObjects(batch) ==
    [c \in {batch[i].context : i \in 1..Len(batch)} \ {Null} |-> [copied |-> c]]

NewExec(batch, path, preferred_provider) ==
    [pc |-> "called", path |-> path, preferred_provider |-> preferred_provider,
     results |-> <<>>, completed_tasks |-> NoResults,
     status |-> [id \in Ids(batch) |-> "pending"],
     sorted_subtasks |-> <<>>, sequential_results |-> <<>>, next |-> 1,
     gathered |-> <<>>, settled |-> <<>>,
     dependent_tasks |-> <<>>, dependency_levels |-> <<>>,
     calls |-> <<>>,
     objects |-> ContextObjects(batch), built |-> <<>>,
     exception |-> NoException]

\* (a check that lets every sub-task through)
DependenciesSatisfied_Always(subtask, completed_tasks) == TRUE

\* _dependencies_satisfied(subtask, completed_tasks)
DependenciesSatisfied(subtask, completed_tasks) ==
    subtask.dependencies \subseteq DOMAIN completed_tasks

\* the context {} of the sub-tasks _execute_parallel gathers (line 435)
NoContext == [copied |-> EmptyDict]

\* the dict made at line 809
NewDict == "context"

\* (context bound to the sub-task's own dict, without copy())
ContextBinding_NoCopy(subtask) ==
    IF subtask.context = Null THEN NewDict ELSE subtask.context

\* line 809: context = subtask.context.copy() if subtask.context else {}
\* names a new dict in both branches, never the sub-task's own
ContextBinding(subtask) == NewDict

\* _build_execution_context(subtask, completed_tasks), run on the dicts
\* objects the sub-tasks hold: the new dict starts with the entries of the
\* sub-task's own, and the key dependencies_results is written to the dict
\* context names when a declared dependency is in the registry.  It gives
\* the dict returned, and the dicts and the registry as the call leaves them
BuildExecutionContext(subtask, completed_tasks, objects) ==
    LET context == ContextBinding(subtask)
        entries == IF subtask.context = Null THEN NoContext
                   ELSE objects[subtask.context]
        heap    == IF context \in DOMAIN objects THEN objects
                   ELSE (context :> entries) @@ objects
        present == subtask.dependencies \cap DOMAIN completed_tasks
        dependencies_results ==
            [dep_id \in present |-> completed_tasks[dep_id].result]
        written == IF present # {}
                   THEN [heap EXCEPT ![context] =
                            [dependencies_results |-> dependencies_results] @@ @]
                   ELSE heap
    IN  [context |-> written[context],
         objects |-> [c \in DOMAIN objects |-> written[c]],
         completed_tasks |-> completed_tasks]

\* a call of _build_execution_context, kept for the record: its arguments
\* and the dict it returned
BuiltOf(subtask, completed_tasks, context) ==
    [subtask_id |-> subtask.id, completed_tasks |-> completed_tasks,
     context |-> context]

\* json.dumps(context, indent=2) of the prompt of _execute_subtask
\* (line 534) accepts the context
Serializable(context) == context.copied # Unserializable

\* what a call of _execute_subtask gives its caller: the TypeError of the
\* prompt, raised before the try of line 544, or the record it returns
SubtaskOutcome(subtask, context, preferred, cl, failures, text) ==
    IF ~Serializable(context) THEN TypeError
    ELSE ExecuteSubtask(subtask, preferred, cl, failures, text)

\* the dict the strategies make of an exception (lines 407-412, 443-448, 498-503)
RecordOfOutcome(subtask_id, outcome) ==
    IF IsException(outcome) THEN ErrorRecord(subtask_id, outcome.message)
    ELSE outcome

\* a call of _execute_subtask(subtask, context, preferred_provider), kept
\* in the order the calls are made
CallOf(subtask, context) == [subtask_id |-> subtask.id, context |-> context]

\* completed_tasks[subtask.id] = result, when the result is a success
Register(completed_tasks, result) ==
    IF result.success
    THEN [id \in DOMAIN completed_tasks \cup {result.subtask_id} |->
             IF id = result.subtask_id THEN result ELSE completed_tasks[id]]
    ELSE completed_tasks

\* the first lines of _execute_sequential (376-380); its results list is
\* sequential_results
EnterSequential(e, tasks) ==
    [e EXCEPT !.pc = "sequential",
              !.sorted_subtasks = SortSubtasksByDependencies(tasks),
              !.sequential_results = <<>>,
              !.completed_tasks = NoResults,
              !.next = 1]

\* one pass of the for loop of _execute_sequential (lines 382-415)
SequentialIteration(e, cl, failures, text) ==
    LET subtask == e.sorted_subtasks[e.next]
        satisfied == DependenciesSatisfied(subtask, e.completed_tasks)
        built   == BuildExecutionContext(subtask, e.completed_tasks, e.objects)
        execution_context == built.context
        result  == IF ~satisfied
                   THEN ErrorRecord(subtask.id, "Dependances non satisfaites")
                   ELSE RecordOfOutcome(subtask.id,
                            SubtaskOutcome(subtask, execution_context,
                                           e.preferred_provider, cl, failures, text))
    IN  [e EXCEPT !.calls = IF satisfied
                            THEN Append(@, CallOf(subtask, execution_context))
                            ELSE @,
                  !.built = IF satisfied
                            THEN Append(@, BuiltOf(subtask, e.completed_tasks,
                                                   execution_context))
                            ELSE @,
                  !.objects = IF satisfied THEN built.objects ELSE @,
                  !.sequential_results = Append(@, result),
                  !.completed_tasks = IF satisfied
                                      THEN Register(built.completed_tasks, result)
                                      ELSE @,
                  !.status[subtask.id] = IF result.success THEN "completed" ELSE "failed",
                  !.next = @ + 1]

\* asyncio.gather(*[...]) over tasks: every coroutine is created, with
\* its context, before the caller is suspended
EnterGather(e, tasks, contexts) ==
    [e EXCEPT !.pc = "gather", !.gathered = tasks,
              !.settled = [i \in 1..Len(tasks) |-> <<>>],
              !.calls = @ \o [i \in 1..Len(tasks) |->
                                 CallOf(tasks[i], contexts[i])]]

\* (a gather whose coroutines write the registry as they return)
Settle_Registers(e, i, record) ==
    [e EXCEPT !.settled[i] = <<record>>,
              !.completed_tasks = IF IsException(record) THEN @
                                  ELSE Register(@, record)]

\* the context the i-th coroutine of the gather was created with
GatheredContext(e, i) ==
    e.calls[Len(e.calls) - Len(e.gathered) + i].context

\* a coroutine of the gather returns or raises: gather keeps its record or
\* its exception until all have settled
Settle(e, i, record) == [e EXCEPT !.settled[i] = <<record>>]

\* (a collection that keeps the records of the successful tasks only)
CollectGathered_SuccessesOnly(gathered, settled) ==
    LET records == [i \in 1..Len(settled) |->
                       RecordOfOutcome(gathered[i].id, settled[i][1])]
        Succeeded(r) == r.success
    IN  SelectSeq(records, Succeeded)

\* the results of a gather with return_exceptions=True, in the order of the
\* tasks it was given, an exception replaced by the failure record of its
\* task
CollectGathered(gathered, settled) ==
    [i \in 1..Len(settled) |-> RecordOfOutcome(gathered[i].id, settled[i][1])]

RECURSIVE RegisterAll(_, _)
RegisterAll(completed_tasks, records) ==
    IF records = <<>> THEN completed_tasks
    ELSE RegisterAll(Register(completed_tasks, Head(records)), Tail(records))

\* [t for t in subtasks if not t.dependencies]
IndependentTasks(batch) ==
    LET Independent(t) == t.dependencies = {}
    IN  SelectSeq(batch, Independent)

\* [t for t in subtasks if t.dependencies]
DependentTasks(batch) ==
    LET Dependent(t) == t.dependencies # {}
    IN  SelectSeq(batch, Dependent)

\* (a parallel path that hands the successes of its gather to the
\* sequential path)
AfterIndependent_Registers(e) ==
    IF e.dependent_tasks # <<>>
    THEN [EnterSequential(e, e.dependent_tasks) EXCEPT
              !.completed_tasks = RegisterAll(NoResults, e.results)]
    ELSE [e EXCEPT !.pc = "returned"]

\* lines 451-456 of _execute_parallel
AfterIndependent(e) ==
    IF e.dependent_tasks # <<>>
    THEN EnterSequential(e, e.dependent_tasks)
    ELSE [e EXCEPT !.pc = "returned"]

\* lines 426-439 of _execute_parallel
StartParallel(e, batch) ==
    LET f == [e EXCEPT !.dependent_tasks = DependentTasks(batch)]
    IN  IF IndependentTasks(batch) # <<>>
        THEN EnterGather(f, IndependentTasks(batch),
                         [i \in 1..Len(IndependentTasks(batch)) |-> NoContext])
        ELSE AfterIndependent(f)

\* lines 465-467 of _execute_hybrid
StartHybrid(e, batch) ==
    LET a == AnalyzeDependencyLevels(batch)
    IN  IF a.raised
        THEN [e EXCEPT !.pc = "raised", !.exception = RecursionError]
        ELSE [e EXCEPT !.pc = "levels", !.dependency_levels = a.levels, !.next = 1]

\* the call of the strategy function of a path
ExecStart(batch, path, preferred_provider) ==
    LET e == NewExec(batch, path, preferred_provider)
    IN  IF path = "sequential" THEN EnterSequential(e, batch)
        ELSE IF path = "parallel" THEN StartParallel(e, batch)
        ELSE StartHybrid(e, batch)

\* (a gather without return_exceptions: the exception of a coroutine
\* leaves the strategy)
GatherCollected_Propagates(e) ==
    LET Raised(x) == IsException(x[1])
        raised == SelectSeq(e.settled, Raised)
    IN  IF raised # <<>>
        THEN [e EXCEPT !.pc = "raised", !.exception = raised[1][1]]
        ELSE IF e.path = "parallel"
        THEN AfterIndependent([e EXCEPT !.results =
                                   @ \o CollectGathered(e.gathered, e.settled)])
        ELSE [e EXCEPT !.pc = "levels",
                       !.results = @ \o CollectGathered(e.gathered, e.settled),
                       !.completed_tasks =
                           RegisterAll(@, CollectGathered(e.gathered, e.settled))]

\* lines 441-449 and 496-507: the records of the gather are appended, and
\* the hybrid path registers the successful ones
GatherCollected(e) ==
    LET records == CollectGathered(e.gathered, e.settled)
    IN  IF e.path = "parallel"
        THEN AfterIndependent([e EXCEPT !.results = @ \o records])
        ELSE [e EXCEPT !.pc = "levels",
                       !.results = @ \o records,
                       !.completed_tasks = RegisterAll(@, records)]

\* the list of coroutines of lines 484-491: the contexts of the tasks of a
\* level are built one after the other, before any coroutine runs
RECURSIVE BuildLevelContexts(_, _)
BuildLevelContexts(e, level_tasks) ==
    IF level_tasks = <<>> THEN e
    ELSE LET task  == Head(level_tasks)
             built == BuildExecutionContext(task, e.completed_tasks, e.objects)
         IN  BuildLevelContexts(
                 [e EXCEPT !.built = Append(@, BuiltOf(task, e.completed_tasks,
                                                       built.context)),
                           !.objects = built.objects,
                           !.completed_tasks = built.completed_tasks],
                 Tail(level_tasks))

\* one pass of the for loop of _execute_hybrid over a level of one task
\* (lines 473-481)
HybridSingle(e, cl, failures, text) ==
    LET task   == e.dependency_levels[e.next].tasks[1]
        built  == BuildExecutionContext(task, e.completed_tasks, e.objects)
        context == built.context
        result == SubtaskOutcome(task, context, e.preferred_provider, cl,
                                 failures, text)
        called == [e EXCEPT !.calls = Append(@, CallOf(task, context)),
                            !.built = Append(@, BuiltOf(task, e.completed_tasks,
                                                        context)),
                            !.objects = built.objects,
                            !.completed_tasks = built.completed_tasks]
    IN  IF IsException(result)
        THEN [called EXCEPT !.pc = "raised", !.exception = result]
        ELSE [called EXCEPT !.results = Append(@, result),
                            !.completed_tasks = Register(@, result),
                            !.next = @ + 1]

(***************************************************************************)
(* The strategies run step by step.  A step goes from one suspension of    *)
(* the coroutine to the next.  The coroutines of a gather are switched     *)
(* only where one suspends (the back-off sleep between attempts), so they  *)
(* may settle in any order.                                                *)
(***************************************************************************)
SequentialStep ==
    /\ exec.pc = "sequential"
    /\ exec.next <= Len(exec.sorted_subtasks)
    /\ \E failures \in 0..max_retries, text \in RemoteTexts :
         exec' = SequentialIteration(exec, clients, failures, text)
    /\ UNCHANGED <<subtasks, sorter, leveller, analyzer, run, clients, execution_stats, subtask_call, scorer, reader, detector>>

\* return results (line 417), and results.extend(sequential_results) in
\* _execute_parallel (line 454)
SequentialReturn ==
    /\ exec.pc = "sequential"
    /\ exec.next > Len(exec.sorted_subtasks)
    /\ exec' = [exec EXCEPT !.pc = "returned", !.results = @ \o exec.sequential_results]
    /\ UNCHANGED <<subtasks, sorter, leveller, analyzer, run, clients, execution_stats, subtask_call, scorer, reader, detector>>

\* one coroutine of the gather returns its record
GatherSettle ==
    /\ exec.pc = "gather"
    /\ \E i \in 1..Len(exec.gathered) :
         /\ exec.settled[i] = <<>>
         /\ \E failures \in 0..max_retries, text \in RemoteTexts :
              exec' = Settle(exec, i,
                             SubtaskOutcome(exec.gathered[i], GatheredContext(exec, i),
                                            exec.preferred_provider,
                                            clients, failures, text))
    /\ UNCHANGED <<subtasks, sorter, leveller, analyzer, run, clients, execution_stats, subtask_call, scorer, reader, detector>>

\* the gather returns once every coroutine has
GatherCollect ==
    /\ exec.pc = "gather"
    /\ \A i \in 1..Len(exec.gathered) : exec.settled[i] # <<>>
    /\ exec' = GatherCollected(exec)
    /\ UNCHANGED <<subtasks, sorter, leveller, analyzer, run, clients, execution_stats, subtask_call, scorer, reader, detector>>

\* the next level of _execute_hybrid: its only task is executed, or its
\* tasks are gathered
HybridLevel ==
    /\ exec.pc = "levels"
    /\ exec.next <= Len(exec.dependency_levels)
    /\ IF Len(exec.dependency_levels[exec.next].tasks) = 1
       THEN \E failures \in 0..max_retries, text \in RemoteTexts :
                exec' = HybridSingle(exec, clients, failures, text)
       ELSE LET level_tasks == exec.dependency_levels[exec.next].tasks
                built == BuildLevelContexts(exec, level_tasks)
            IN  exec' = EnterGather([built EXCEPT !.next = @ + 1], level_tasks,
                                    [i \in 1..Len(level_tasks) |->
                                        built.built[Len(exec.built) + i].context])
    /\ UNCHANGED <<subtasks, sorter, leveller, analyzer, run, clients, execution_stats, subtask_call, scorer, reader, detector>>

\* return results (line 509)
HybridReturn ==
    /\ exec.pc = "levels"
    /\ exec.next > Len(exec.dependency_levels)
    /\ exec' = [exec EXCEPT !.pc = "returned"]
    /\ UNCHANGED <<subtasks, sorter, leveller, analyzer, run, clients, execution_stats, subtask_call, scorer, reader, detector>>

StrategyStep ==
    \/ SequentialStep \/ SequentialReturn
    \/ GatherSettle \/ GatherCollect
    \/ HybridLevel \/ HybridReturn

\* the batch whose tasks of U carry a context json.dumps refuses
WithContexts(batch, U) ==
    [i \in 1..Len(batch) |->
        IF i \in U THEN [batch[i] EXCEPT !.context = Unserializable] ELSE batch[i]]

\* a call of one of the three strategy functions on a batch
ExecCall ==
    /\ exec.pc = "idle"
    /\ \E n \in 0..MaxBatch : \E E \in EdgeSets(n, MaxDeclared) :
         \E path \in {"sequential", "parallel", "hybrid"}, p \in Providers :
         \E U \in {S \in SUBSET (1..n) : Cardinality(S) <= MaxUnserializable} :
           /\ subtasks' = WithContexts(BatchOf(n, E, [i \in 1..n |-> DefaultPriority]), U)
           /\ exec' = ExecStart(subtasks', path, p)
    /\ UNCHANGED <<sorter, leveller, analyzer, run, clients, execution_stats, subtask_call, scorer, reader, detector>>

ExecNext == ExecCall \/ StrategyStep

ExecSpec == Init /\ [][ExecNext]_vars

(***************************************************************************)
(* _assemble_results and _validate_coherence.  A score is counted in       *)
(* thousandths, so that 0.7 is 700 and score_total / 100.0 of a whole      *)
(* number of points is exact.                                              *)
(***************************************************************************)
\* the score 1.0
One == 1000

\* success=validation_score >= 0.7
SuccessThreshold == 700

\* len(final_result.strip()) < 50
MinFinalLength == 50

\* the three scores of the failure path of _validate_coherence: 0.2, 0.5, 0.8
ShortResultScore == 200
NoSubtaskScore == 500
MaxFallbackScore == 800

Min2(a, b) == IF a <= b THEN a ELSE b

\* "ERREUR: Aucune sous-tache n'a reussi"
Marker == [kind |-> "marker", length |-> 36]

\* final_result=None
NoText == [kind |-> "none", length |-> 0]

\* the remote call raises instead of answering a text
Raises == [kind |-> "raise", length |-> 0]

\* [r for r in subtask_results if r.get("success", False)]
Successful(subtask_results) ==
    LET Succeeded(r) == r.success
    IN  SelectSeq(subtask_results, Succeeded)

\* the length of "\n\n".join(texts)
RECURSIVE JoinLength(_)
JoinLength(records) ==
    IF records = <<>> THEN 0
    ELSE IF Len(records) = 1 THEN Head(records).result.length
    ELSE Head(records).result.length + 2 + JoinLength(Tail(records))

\* how many times _assemble_results calls _call_ai_api: the return of line
\* 610 comes before the call of line 642
AssemblyCalls(subtask_results) ==
    IF Successful(subtask_results) = <<>> THEN 0 ELSE 1

\* (an assembly that asks the remote service whatever the results)
AssembleResults_AlwaysAsks(subtask_results, cl, answer) ==
    IF ~ProviderAvailable("claude", cl) \/ answer.kind = "raise"
    THEN [kind |-> "concatenation", length |-> JoinLength(Successful(subtask_results))]
    ELSE answer

\* _assemble_results, the assembly call being pinned to Claude
AssembleResults(subtask_results, cl, answer) ==
    IF Successful(subtask_results) = <<>> THEN Marker
    ELSE IF ~ProviderAvailable("claude", cl) \/ answer.kind = "raise"
    THEN [kind |-> "concatenation", length |-> JoinLength(Successful(subtask_results))]
    ELSE answer

\* validation_data.get("score_total", 0) / 100.0
ScoreFromTotal(score_total) == (score_total * One) \div 100

\* (a score that is left as the remote service gave it)
Clamp_Nothing(score) == score

\* max(0.0, min(1.0, score))
Clamp(score) == Max2(0, Min2(One, score))

\* (a fallback that does not cap the ratio of successes)
FallbackScore_NoCap(final_result, subtask_results) ==
    IF StrippedLength(final_result) < MinFinalLength THEN ShortResultScore
    ELSE IF Len(subtask_results) = 0 THEN NoSubtaskScore
    ELSE (Len(Successful(subtask_results)) * One) \div Len(subtask_results)

\* the except branch of _validate_coherence (lines 701-713)
FallbackScore(final_result, subtask_results) ==
    IF StrippedLength(final_result) < MinFinalLength THEN ShortResultScore
    ELSE IF Len(subtask_results) = 0 THEN NoSubtaskScore
    ELSE Min2(MaxFallbackScore,
              (Len(Successful(subtask_results)) * One) \div Len(subtask_results))

\* _validate_coherence, the scoring call being pinned to GPT
ValidateCoherence(final_result, subtask_results, cl, response) ==
    IF \/ ~ProviderAvailable("gpt", cl)
       \/ response.kind = "raise"
       \/ ~response.json
    THEN FallbackScore(final_result, subtask_results)
    ELSE Clamp(ScoreFromTotal(Get(response.data, "score_total", 0)))

(***************************************************************************)
(* execute_task                                                            *)
(***************************************************************************)
\* (a comparison that leaves the threshold itself out)
Success_Strict(validation_score) == validation_score > SuccessThreshold

\* success=validation_score >= 0.7 (line 324)
Success(validation_score) == validation_score >= SuccessThreshold

\* [r.get("error", "") for r in subtask_results if r.get("error")]
ErrorsOf(subtask_results) ==
    LET Failed(r) == Has(r, "error")
        failed == SelectSeq(subtask_results, Failed)
    IN  [i \in 1..Len(failed) |-> failed[i].error]

\* the ExecutionResult of the normal path (lines 323-336)
NormalResult(analysis, final_result, subtask_results, validation_score) ==
    [success |-> Success(validation_score),
     final_result |-> final_result,
     subtask_results |-> subtask_results,
     validation_score |-> validation_score,
     errors |-> ErrorsOf(subtask_results),
     metadata |-> [execution_strategy |-> analysis.execution_strategy,
                   subtasks_count |-> Len(analysis.subtasks)]]

\* the ExecutionResult of the except branch (lines 360-368)
FailureResult(message) ==
    [success |-> FALSE, final_result |-> NoText, subtask_results |-> <<>>,
     validation_score |-> 0, errors |-> <<message>>,
     metadata |-> [error |-> message]]


\* (a boundary that catches ValueError only)
CaughtAtBoundary_ValueErrorOnly(exception) == exception.class = "ValueError"

\* except Exception (line 355): the classes derived from Exception
CaughtAtBoundary(exception) ==
    exception.class \in {"ValueError", "TypeError", "KeyError", "RecursionError"}

\* execution_time = time.time() - start_time, in ticks of the clock of the
\* model: the runs of execute_task are explored with one duration
Tick == 1

\* the ledger after the normal path (lines 342-351)
StatsAfterResult(stats, analysis, result, execution_time) ==
    [tasks_processed |-> stats.tasks_processed + 1,
     subtasks_created |-> stats.subtasks_created + Len(analysis.subtasks),
     successful_executions |->
         stats.successful_executions + (IF result.success THEN 1 ELSE 0),
     failed_executions |->
         stats.failed_executions + (IF result.success THEN 0 ELSE 1),
     total_execution_time |-> stats.total_execution_time + execution_time]

\* the ledger after the except branch (line 358)
StatsAfterFailure(stats) ==
    [stats EXCEPT !.failed_executions = @ + 1]

\* every call of execute_task ends by adding one to one of the two
\* outcome counters
CallsMade == execution_stats.successful_executions + execution_stats.failed_executions

\* what the remote analysis answers in the runs of execute_task
PlanAnswers ==
    {RemoteRaises, NotJson} \cup
    {JsonObject(ObjectOf(
         [complexity |-> <<"complex">>, estimated_total_lines |-> <<600>>,
          requires_splitting |-> <<r>>,
          subtasks |-> <<ProposalOf(p[1], p[2], [i \in 1..p[1] |-> DefaultPriority])>>,
          execution_strategy |-> e])) :
        r \in BOOLEAN,
        p \in UNION {{<<n, E>> : E \in EdgeSets(n, MaxPlannedDeps)} : n \in 0..MaxPlanned},
        e \in {<<>>} \cup {<<v>> : v \in Strategies \cup {"sequential"}}}

\* what the remote scoring answers: score_total in points
ScoreAnswers ==
    {RemoteRaises, NotJson, JsonObject(<<>>)} \cup
    {JsonObject([score_total |-> v]) : v \in {-5, 69, 70, 100, 150}}

\* a call of execute_task (lines 291-294)
RunCall ==
    /\ run.pc \in {"idle", "returned"}
    /\ CallsMade < MaxRuns
    /\ \E d \in Descriptions, c \in Contexts, p \in Providers :
         run' = [pc |-> "analyzing", task_description |-> d, context |-> c,
                 preferred_provider |-> p]
    /\ exec' = Idle
    /\ subtasks' = <<>>
    /\ UNCHANGED <<sorter, leveller, analyzer, clients, execution_stats, subtask_call, scorer, reader, detector>>

\* the except branch of execute_task, reached by `exception`
Boundary(exception) ==
    IF CaughtAtBoundary(exception)
    THEN /\ run' = [run EXCEPT !.pc = "returned"] @@
                       [result |-> FailureResult(exception.message)]
         /\ execution_stats' = StatsAfterFailure(execution_stats)
    ELSE /\ run' = [run EXCEPT !.pc = "raised"]
         /\ UNCHANGED execution_stats

\* analyze_task_complexity raises while it builds its prompt (line 169)
RunAnalysisRaises ==
    /\ run.pc = "analyzing"
    /\ run.context = Unserializable
    /\ Boundary(TypeError)
    /\ UNCHANGED <<subtasks, sorter, leveller, analyzer, exec, clients, subtask_call, scorer, reader, detector>>

\* the analysis returns and the strategy function of its strategy is
\* called (lines 296-309)
RunAnalyze ==
    /\ run.pc = "analyzing"
    /\ run.context # Unserializable
    /\ \E response \in PlanAnswers :
         LET analysis == AnalysisOf(run.task_description, run.context, clients, response)
         IN  /\ run' = [run EXCEPT !.pc = "executing"] @@ [analysis |-> analysis]
             /\ subtasks' = analysis.subtasks
             /\ exec' = ExecStart(analysis.subtasks,
                                  StrategyPath(analysis.execution_strategy),
                                  run.preferred_provider)
    /\ UNCHANGED <<sorter, leveller, analyzer, clients, execution_stats, subtask_call, scorer, reader, detector>>

\* the strategy function raised
RunStrategyRaises ==
    /\ run.pc = "executing"
    /\ exec.pc = "raised"
    /\ Boundary(exec.exception)
    /\ UNCHANGED <<subtasks, sorter, leveller, analyzer, exec, clients, subtask_call, scorer, reader, detector>>

\* the strategy function returned: _assemble_results (line 312)
RunAssemble ==
    /\ run.pc = "executing"
    /\ exec.pc = "returned"
    /\ \E answer \in {Raises} \cup RemoteTexts :
         run' = [run EXCEPT !.pc = "assembled"] @@
                    [subtask_results |-> exec.results,
                     final_result |-> AssembleResults(exec.results, clients, answer),
                     assembly_calls |-> AssemblyCalls(exec.results)]
    /\ UNCHANGED <<subtasks, sorter, leveller, analyzer, exec, clients, execution_stats, subtask_call, scorer, reader, detector>>

\* _validate_coherence, the result and the ledger (lines 315-353).
\* _save_execution_result in between only writes files and catches every
\* error of its own: it changes nothing the orchestrator reads.
RunValidate ==
    /\ run.pc = "assembled"
    /\ \E response \in ScoreAnswers :
         LET validation_score ==
                 ValidateCoherence(run.final_result, run.subtask_results, clients, response)
             result == NormalResult(run.analysis, run.final_result,
                                    run.subtask_results, validation_score)
         IN  /\ run' = [run EXCEPT !.pc = "returned"] @@ [result |-> result]
             /\ execution_stats' = StatsAfterResult(execution_stats, run.analysis, result, Tick)
    /\ UNCHANGED <<subtasks, sorter, leveller, analyzer, exec, clients, subtask_call, scorer, reader, detector>>

Next ==
    \/ RunCall \/ RunAnalysisRaises \/ RunAnalyze \/ RunStrategyRaises
    \/ RunAssemble \/ RunValidate
    \/ StrategyStep

Spec == Init /\ [][Next]_vars

(***************************************************************************)
(* _execute_subtask run attempt by attempt.  calls is the log of the calls *)
(* of _call_ai_api, sleeps the log of the waits of asyncio.sleep.          *)
(***************************************************************************)
\* the sub-tasks _execute_subtask is called with
SubtaskSamples ==
    {SubTask(SubtaskId(1), "a title", d, 100, {}, DefaultPriority, Null) :
        d \in Descriptions \cup {CapitalDescription}}

\* (a back-off that grows by one second per attempt)
Backoff_Linear(attempt) == attempt + 1

\* await asyncio.sleep(2**attempt)
Backoff(attempt) == 2 ^ attempt

\* (a loop that takes no attempt for the last one)
LastAttempt_Never(attempt, retries) == FALSE

\* if attempt == self.max_retries - 1: raise e
LastAttempt(attempt, retries) == attempt = retries - 1

\* the dict of lines 567-574
AnswerRecord(subtask, text, provider) ==
    [subtask_id |-> subtask.id,
     success |-> ValidateSubtaskResult(subtask, text),
     result |-> text, provider_used |-> provider]

\* one pass of the for loop of lines 552-560: _call_ai_api raises (the
\* provider has no client, or the remote service fails) or returns
RetryAttempt(c, cl, outcome) ==
    LET available == ProviderAvailable(c.provider, cl)
        raised    == ~available \/ outcome.kind = "raise"
        message   == IF ~available THEN "Provider non disponible"
                     ELSE RemoteErrorMessage(c.attempt)
        logged    == [c EXCEPT !.calls = Append(@, [attempt |-> c.attempt,
                                                    remote |-> available,
                                                    raised |-> raised,
                                                    message |-> IF raised THEN message ELSE ""])]
    IN  IF ~raised
        THEN [logged EXCEPT !.pc = "returned"] @@
                 [result |-> AnswerRecord(c.subtask, outcome, c.provider)]
        ELSE IF LastAttempt(c.attempt, c.max_retries)
        THEN [logged EXCEPT !.pc = "returned"] @@
                 [result |-> ErrorRecord(c.subtask.id, message)]
        ELSE [logged EXCEPT !.pc = "sleeping",
                            !.sleeps = Append(@, Backoff(c.attempt))]

\* a call of _execute_subtask on an orchestrator built with max_retries
SubtaskCall ==
    /\ subtask_call.pc = "idle"
    /\ \E subtask \in SubtaskSamples, p \in Providers, retries \in 0..MaxRetriesArg :
         subtask_call' = [pc |-> "loop", subtask |-> subtask, preferred_provider |-> p,
                          max_retries |-> retries,
                          provider |-> SelectProvider(p, subtask, clients),
                          attempt |-> 0, calls |-> <<>>, sleeps |-> <<>>]
    /\ UNCHANGED <<subtasks, sorter, leveller, analyzer, exec, run, clients, execution_stats, scorer, reader, detector>>

SubtaskAttempt ==
    /\ subtask_call.pc = "loop"
    /\ subtask_call.attempt < subtask_call.max_retries
    /\ \E outcome \in {Raises} \cup RemoteTexts :
         subtask_call' = RetryAttempt(subtask_call, clients, outcome)
    /\ UNCHANGED <<subtasks, sorter, leveller, analyzer, exec, run, clients, execution_stats, scorer, reader, detector>>

\* the sleep is over: the next pass of the loop
SubtaskWake ==
    /\ subtask_call.pc = "sleeping"
    /\ subtask_call' = [subtask_call EXCEPT !.pc = "loop", !.attempt = @ + 1]
    /\ UNCHANGED <<subtasks, sorter, leveller, analyzer, exec, run, clients, execution_stats, scorer, reader, detector>>

\* the loop ends without a break or a raise (range(self.max_retries) is
\* exhausted): result_text is still None, which is not a valid result
SubtaskLoopEnds ==
    /\ subtask_call.pc = "loop"
    /\ subtask_call.attempt >= subtask_call.max_retries
    /\ subtask_call' = [subtask_call EXCEPT !.pc = "returned"] @@
           [result |-> [subtask_id |-> subtask_call.subtask.id, success |-> FALSE,
                        result |-> NoText, provider_used |-> subtask_call.provider]]
    /\ UNCHANGED <<subtasks, sorter, leveller, analyzer, exec, run, clients, execution_stats, scorer, reader, detector>>

RetryNext == SubtaskCall \/ SubtaskAttempt \/ SubtaskWake \/ SubtaskLoopEnds

RetrySpec == Init /\ [][RetryNext]_vars

(***************************************************************************)
(* _validate_coherence run on every answer of the remote scoring.          *)
(***************************************************************************)
\* the final results it is called with: None, the marker, a short and a
\* long text
FinalTexts == {NoText, Marker, ShortText, LongText, PaddedText}

\* the result lists it is called with: successful and failed records
ScoredRecords ==
    {[subtask_id |-> SubtaskId(1), success |-> TRUE, result |-> LongText,
      provider_used |-> "claude"],
     ErrorRecord(SubtaskId(1), "Provider non disponible")}

\* a call of _validate_coherence (lines 665-690 build the prompt)
ScoreCall ==
    /\ scorer.pc = "idle"
    /\ \E f \in FinalTexts, r \in ListsUpTo(ScoredRecords, MaxScored) :
         scorer' = [pc |-> "awaiting", final_result |-> f, subtask_results |-> r]
    /\ UNCHANGED <<subtasks, sorter, leveller, analyzer, exec, run, clients,
                   execution_stats, subtask_call, reader, detector>>

ScoreFinish(response) ==
    /\ scorer.pc = "awaiting"
    /\ scorer' = [scorer EXCEPT !.pc = "returned"] @@
           [response |-> response,
            score |-> ValidateCoherence(scorer.final_result, scorer.subtask_results,
                                        clients, response)]
    /\ UNCHANGED <<subtasks, sorter, leveller, analyzer, exec, run, clients,
                   execution_stats, subtask_call, reader, detector>>

\* the remote call fails, or the GPT client does not exist
ScoreRemoteFails == ScoreFinish(RemoteRaises)

\* the remote text is not JSON
ScoreNotJson ==
    /\ ProviderAvailable("gpt", clients)
    /\ ScoreFinish(NotJson)

\* the remote text is a JSON object, with or without score_total
ScoreJson ==
    /\ scorer.pc = "awaiting"
    /\ ProviderAvailable("gpt", clients)
    /\ \E response \in ScoreAnswers \ {RemoteRaises, NotJson} : ScoreFinish(response)

ScoreNext == ScoreCall \/ ScoreRemoteFails \/ ScoreNotJson \/ ScoreJson

ScoreSpec == Init /\ [][ScoreNext]_vars

(***************************************************************************)
(* get_execution_stats (lines 918-930) and the ledger it reads.  A run of  *)
(* execute_task is one step here, told by its outcome: the ledger only     *)
(* sees how many sub-tasks the analysis planned, whether the result was a  *)
(* success, how long the run took, or that the run failed at top level.    *)
(***************************************************************************)
\* the durations of a run, in ticks
ElapsedTimes == {Tick, Tick + Tick}

\* the keys get_execution_stats adds
DerivedKeys == {"average_execution_time", "success_rate"}

\* lines 921-928: the two derived values, in thousandths; 0.0 for both
\* when no task was processed
DerivedStats(stats) ==
    IF stats.tasks_processed > 0
    THEN [average_execution_time |->
              (stats.total_execution_time * One) \div stats.tasks_processed,
          success_rate |->
              (stats.successful_executions * One) \div stats.tasks_processed]
    ELSE [average_execution_time |-> 0, success_rate |-> 0]

\* get_execution_stats writing into self.execution_stats itself
ReadStats_NoCopy(ledger) ==
    [ledger |-> DerivedStats(ledger) @@ ledger,
     returned |-> DerivedStats(ledger) @@ ledger]

\* get_execution_stats: the ledger it leaves and the dict it returns.
\* stats = self.execution_stats.copy() (line 920), so the derived keys are
\* written into the copy only
ReadStats(ledger) ==
    [ledger |-> ledger,
     returned |-> DerivedStats(ledger) @@ ledger]

\* the runs of execute_task so far
RunsSeen == IF reader = Idle THEN 0 ELSE reader.runs

\* the reads since the last run of execute_task
ReadsSeen == IF reader = Idle THEN 0 ELSE reader.reads

\* the caller's view after a run of execute_task: no snapshot yet
AfterRun == [pc |-> "ran", runs |-> RunsSeen + 1, reads |-> 0]

\* a planned analysis of n sub-tasks, as far as the ledger reads it
PlannedAnalysis(n) == [subtasks |-> [i \in 1..n |-> SubtaskId(i)]]

\* execute_task returns from its try block (lines 320-351)
LedgerRun ==
    /\ RunsSeen < MaxRuns
    /\ \E n \in 1..MaxTasks, success \in BOOLEAN, execution_time \in ElapsedTimes :
           execution_stats' = StatsAfterResult(execution_stats, PlannedAnalysis(n),
                                               [success |-> success], execution_time)
    /\ reader' = AfterRun
    /\ UNCHANGED <<subtasks, sorter, leveller, analyzer, exec, run, clients,
                   subtask_call, scorer, detector>>

\* execute_task returns from its except branch (lines 353-373)
LedgerRunFails ==
    /\ RunsSeen < MaxRuns
    /\ execution_stats' = StatsAfterFailure(execution_stats)
    /\ reader' = AfterRun
    /\ UNCHANGED <<subtasks, sorter, leveller, analyzer, exec, run, clients,
                   subtask_call, scorer, detector>>

\* one call of get_execution_stats; the caller keeps the snapshot and the
\* one before it
GetStats ==
    /\ ReadsSeen < MaxReads
    /\ LET out == ReadStats(execution_stats)
       IN  /\ execution_stats' = out.ledger
           /\ reader' = [pc |-> "read",
                         runs |-> RunsSeen,
                         reads |-> ReadsSeen + 1,
                         before |-> execution_stats,
                         previous |-> IF ReadsSeen = 0 THEN <<>> ELSE reader.returned,
                         returned |-> <<out.returned>>]
    /\ UNCHANGED <<subtasks, sorter, leveller, analyzer, exec, run, clients,
                   subtask_call, scorer, detector>>

LedgerNext == LedgerRun \/ LedgerRunFails \/ GetStats

LedgerSpec == Init /\ [][LedgerNext]_vars

(***************************************************************************)
(* detect_llm_config of src/orchestrate.py (lines 45-72).  The value of an *)
(* environment variable is a sequence of characters, a blank or a letter,  *)
(* or the variable is not set.                                             *)
(***************************************************************************)
Blank == " "
Characters == {Blank, "k"}

RECURSIVE StringsUpTo(_)
StringsUpTo(n) ==
    IF n = 0 THEN {<<>>}
    ELSE StringsUpTo(n - 1) \cup
         {Append(w, c) : w \in {v \in StringsUpTo(n - 1) : Len(v) = n - 1},
                         c \in Characters}

\* a variable of the environment: <<>> when it is not set, <<value>> otherwise
KeyVariables == {<<>>} \cup {<<w>> : w \in StringsUpTo(MaxKeyLen)}

\* os.getenv(name, default)
Getenv(variable, default) == IF variable = <<>> THEN default ELSE variable[1]

RECURSIVE LStrip(_)
LStrip(w) == IF w # <<>> /\ Head(w) = Blank THEN LStrip(Tail(w)) ELSE w

RECURSIVE RStrip(_)
RStrip(w) ==
    IF w # <<>> /\ w[Len(w)] = Blank THEN RStrip(SubSeq(w, 1, Len(w) - 1)) ELSE w

\* (a strip that keeps the blanks)
Strip_Nothing(w) == w

\* str.strip()
Strip(w) == RStrip(LStrip(w))

\* the model ids of the environment: the default of line 54 and another
DefaultModelId == <<"claude-sonnet-4-20250514">>
ModelVariables == {<<>>, <<<<Blank, "m">>>>}

\* StubLLMConfig() (lines 19-29); None is Null
StubLLMConfig ==
    [mode |-> "stub", openai_key |-> Null, anthropic_key |-> Null,
     model_id |-> <<"stub-model">>, is_stub_mode |-> TRUE]

\* LiveLLMConfig(openai_key, anthropic_key, model_id) (lines 32-42)
LiveLLMConfig(openai_key, anthropic_key, model_id) ==
    [mode |-> "live", openai_key |-> openai_key, anthropic_key |-> anthropic_key,
     model_id |-> model_id, is_stub_mode |-> FALSE]

\* detect_llm_config() in an environment: the pair (config, is_stub)
DetectLlmConfig(environ) ==
    LET openai_key    == Strip(Getenv(environ.OPENAI_API_KEY, <<>>))
        anthropic_key == Strip(Getenv(environ.ANTHROPIC_API_KEY, <<>>))
        model_id      == Strip(Getenv(environ.ANTHROPIC_MODEL_ID, DefaultModelId))
        has_keys      == openai_key # <<>> \/ anthropic_key # <<>>
    IN  IF ~has_keys
        THEN [config |-> StubLLMConfig, is_stub |-> TRUE]
        ELSE [config |-> LiveLLMConfig(openai_key, anthropic_key, model_id),
              is_stub |-> FALSE]

\* detect_llm_config is called in some environment
DetectCall ==
    /\ detector.pc = "idle"
    /\ \E o \in KeyVariables, a \in KeyVariables, mid \in ModelVariables :
         detector' = [pc |-> "called",
                      environ |-> [OPENAI_API_KEY |-> o, ANTHROPIC_API_KEY |-> a,
                                   ANTHROPIC_MODEL_ID |-> mid]]
    /\ UNCHANGED <<subtasks, sorter, leveller, analyzer, exec, run, clients,
                   execution_stats, subtask_call, scorer, reader>>

\* it returns
DetectReturn ==
    /\ detector.pc = "called"
    /\ detector' = [pc |-> "returned", environ |-> detector.environ,
                    returned |-> DetectLlmConfig(detector.environ)]
    /\ UNCHANGED <<subtasks, sorter, leveller, analyzer, exec, run, clients,
                   execution_stats, subtask_call, scorer, reader>>

DetectNext == DetectCall \/ DetectReturn

DetectSpec == Init /\ [][DetectNext]_vars

(***************************************************************************)
(* Dependency graphs of a batch.                                           *)
(***************************************************************************)
\* the declared dependencies of id that name a task of the batch
DepsInBatch(batch, id) == TaskById(batch, id).dependencies \cap Ids(batch)

RECURSIVE ReachableFrom(_, _, _)
ReachableFrom(batch, frontier, seen) ==
    LET next == UNION {DepsInBatch(batch, id) : id \in frontier} \ seen
    IN  IF next = {} THEN seen ELSE ReachableFrom(batch, next, seen \cup next)

\* the tasks of the batch id depends on, directly or not
TransitiveDeps(batch, id) ==
    ReachableFrom(batch, DepsInBatch(batch, id), DepsInBatch(batch, id))

HasCycle(batch) == \E id \in Ids(batch) : id \in TransitiveDeps(batch, id)

HasDangling(batch) ==
    \E i \in 1..Len(batch) : ~(batch[i].dependencies \subseteq Ids(batch))

PositionOf(s, id) == CHOOSE i \in 1..Len(s) : s[i].id = id

\* every task of the order comes after each task of the batch it depends on
RespectsDependencies(order, batch) ==
    \A i \in 1..Len(order) : \A d \in DepsInBatch(batch, order[i].id) :
        \E j \in 1..(i - 1) : order[j].id = d

IsPermutation(s, t) ==
    /\ Len(s) = Len(t)
    /\ \A i \in 1..Len(t) : Cardinality({j \in 1..Len(s) : s[j] = t[i]}) = 1

SortReturned == sorter.pc = "returned"

(***************************************************************************)
(* C3 as stated: on every batch without a dependency cycle, batches with   *)
(* a dependency id naming no task of the batch included, the returned      *)
(* order puts every task after the tasks of the batch it depends on.       *)
(***************************************************************************)
C3_OrderRespectsDependencies_AsStated ==
    (SortReturned /\ ~HasCycle(subtasks))
        => RespectsDependencies(sorter.st.sorted_tasks, subtasks)

(***************************************************************************)
(* C3 amended: on every batch without a dependency cycle in which every    *)
(* dependency id names a task of the batch, the returned order puts every  *)
(* task after all the tasks it depends on.                                 *)
(***************************************************************************)
C3_OrderRespectsDependencies ==
    (SortReturned /\ ~HasCycle(subtasks) /\ ~HasDangling(subtasks))
        => RespectsDependencies(sorter.st.sorted_tasks, subtasks)

\* an acyclic chain given in reverse order (1 needs 2, 2 needs 3), sorted
C3_Witness ==
    /\ SortReturned
    /\ ~HasCycle(subtasks) /\ ~HasDangling(subtasks)
    /\ Len(subtasks) = 3
    /\ subtasks[1].dependencies = {SubtaskId(2)}
    /\ subtasks[2].dependencies = {SubtaskId(3)}
    /\ sorter.st.sorted_tasks[1].id = SubtaskId(3)

(***************************************************************************)
(* C4: on every batch, cyclic or not, the scheduler terminates (every pass *)
(* of its loop schedules at least one more task, so it makes at most one   *)
(* pass per task, and no task is lost or added on the way), and what it    *)
(* returns is a permutation of the batch: every task exactly once.         *)
(***************************************************************************)
C4_SortTerminatesWithPermutation ==
    sorter.pc # "idle" =>
        /\ sorter.passes <= Len(sorter.st.sorted_tasks)
        /\ Len(sorter.st.sorted_tasks) + Len(sorter.st.remaining_tasks) = Len(subtasks)
        /\ SortReturned => IsPermutation(sorter.st.sorted_tasks, subtasks)

\* a batch with a cycle, returned after a forced pick
C4_Witness ==
    /\ SortReturned
    /\ HasCycle(subtasks)
    /\ sorter.st.forced
    /\ Len(sorter.st.sorted_tasks) = 3

LevelsReturned == leveller.pc = "returned"

\* the number of places of the level lists that hold the task id
Occurrences(levels, id) ==
    Cardinality({<<k, j>> \in (1..Len(levels)) \X (1..MaxTasks + 1) :
                    j <= Len(levels[k].tasks) /\ levels[k].tasks[j].id = id})

\* the level of the list that holds the task id
LevelOf(levels, id) ==
    levels[CHOOSE k \in 1..Len(levels) :
               \E j \in 1..Len(levels[k].tasks) : levels[k].tasks[j].id = id].level

SetMax(S) == CHOOSE x \in S : \A y \in S : y <= x

\* the chain subtask_3 -> subtask_2 -> subtask_1 (C needs B, B needs A)
IsChainOfThree(batch) ==
    /\ Len(batch) = 3
    /\ batch[1].dependencies = {}
    /\ batch[2].dependencies = {SubtaskId(1)}
    /\ batch[3].dependencies = {SubtaskId(2)}

(***************************************************************************)
(* C5: on every batch without a dependency cycle the level analysis        *)
(* returns, every task is in exactly one level list, a task without        *)
(* dependencies is at level 0 and any other task at 1 + the largest level  *)
(* of its dependencies (the dependencies naming no task of the batch have  *)
(* no level and do not count: a task with only such dependencies is at     *)
(* level 0); for the chain C needs B needs A the levels are 0, 1, 2.       *)
(***************************************************************************)
C5_LevelsOfAcyclicBatch ==
    /\ (leveller.pc # "idle" /\ ~HasCycle(subtasks)) => ~leveller.st.raised
    /\ (LevelsReturned /\ ~HasCycle(subtasks)) =>
        /\ \A i \in 1..Len(subtasks) :
              LET t == subtasks[i]
                  L == leveller.st.levels
              IN  /\ Occurrences(L, t.id) = 1
                  /\ t.dependencies = {} => LevelOf(L, t.id) = 0
                  /\ t.dependencies # {} =>
                        LevelOf(L, t.id) = 1 + SetMax({-1} \cup
                            {LevelOf(L, d) : d \in DepsInBatch(subtasks, t.id)})
        /\ IsChainOfThree(subtasks) =>
              /\ LevelOf(leveller.st.levels, SubtaskId(1)) = 0
              /\ LevelOf(leveller.st.levels, SubtaskId(2)) = 1
              /\ LevelOf(leveller.st.levels, SubtaskId(3)) = 2

\* the chain of three, analysed
C5_Witness ==
    /\ LevelsReturned
    /\ IsChainOfThree(subtasks)
    /\ Len(leveller.st.levels) = 3

AnalyzeReturned == analyzer.pc = "returned"

\* the remote call of the analysis failed: no client, or the service raised
AnalysisCallFailed == ~clients.anthropic \/ analyzer.response.kind = "raise"

\* the answer came and is not a JSON object with the keys the code reads
AnalysisUnparsable ==
    /\ ~AnalysisCallFailed
    /\ \/ ~analyzer.response.json
       \/ \E k \in {"complexity", "requires_splitting", "estimated_total_lines"} :
              k \notin DOMAIN analyzer.response.data
       \/ /\ "subtasks" \in DOMAIN analyzer.response.data
          /\ \E i \in 1..Len(analyzer.response.data.subtasks) :
                \E k \in {"title", "description", "estimated_lines"} :
                    k \notin DOMAIN analyzer.response.data.subtasks[i]

\* the answer names a complexity outside the enum
AnalysisBadComplexity ==
    /\ ~AnalysisCallFailed
    /\ analyzer.response.json
    /\ "complexity" \in DOMAIN analyzer.response.data
    /\ analyzer.response.data.complexity \notin
           {"simple", "moderate", "complex", "very_complex"}

AnalysisFailed == AnalysisCallFailed \/ AnalysisUnparsable \/ AnalysisBadComplexity

(***************************************************************************)
(* C6 as stated: analyze_task_complexity never raises to its caller, and   *)
(* when the remote call fails, when its answer cannot be parsed or when    *)
(* the complexity is outside the enum it returns the fixed fallback:       *)
(* complexity moderate, no splitting, 300 lines, 30 minutes and one        *)
(* sub-task without dependencies whose description is the task             *)
(* description.                                                            *)
(***************************************************************************)
C6_AnalyzeNeverRaises ==
    /\ analyzer.pc # "raised"
    /\ (AnalyzeReturned /\ AnalysisFailed) =>
        /\ analyzer.analysis.complexity = "moderate"
        /\ analyzer.analysis.requires_splitting = FALSE
        /\ analyzer.analysis.estimated_total_lines = 300
        /\ analyzer.analysis.estimated_duration = 30
        /\ Len(analyzer.analysis.subtasks) = 1
        /\ analyzer.analysis.subtasks[1].dependencies = {}
        /\ analyzer.analysis.subtasks[1].description = analyzer.task_description

(***************************************************************************)
(* C7: a TaskAnalysis of the fallback path has at least one sub-task and   *)
(* the strategy string for which execute_task runs the sequential path.    *)
(***************************************************************************)
C7_FallbackIsSequential ==
    (AnalyzeReturned /\ AnalysisFailed) =>
        /\ Len(analyzer.analysis.subtasks) >= 1
        /\ analyzer.analysis.execution_strategy = Sequentiel
        /\ StrategyPath(analyzer.analysis.execution_strategy) = "sequential"

\* the fallback after a failed remote call
C7_Witness ==
    /\ AnalyzeReturned
    /\ AnalysisCallFailed
    /\ analyzer.analysis.subtasks[1].id = "fallback_task"
    /\ StrategyPath(analyzer.analysis.execution_strategy) = "sequential"

(***************************************************************************)
(* C8 as stated: every TaskAnalysis analyze_task_complexity returns has at *)
(* least one sub-task, whatever the remote answer; when the answer says    *)
(* requires_splitting = false and proposes no sub-task, the analysis holds *)
(* exactly one synthetic sub-task wrapping the task description.           *)
(***************************************************************************)
C8_SubtasksNeverEmpty ==
    AnalyzeReturned =>
        /\ Len(analyzer.analysis.subtasks) >= 1
        /\ (/\ ~AnalysisFailed
            /\ analyzer.response.data.requires_splitting = FALSE
            /\ Get(analyzer.response.data, "subtasks", <<>>) = <<>>) =>
                /\ Len(analyzer.analysis.subtasks) = 1
                /\ analyzer.analysis.subtasks[1].id = "main_task"
                /\ analyzer.analysis.subtasks[1].description = analyzer.task_description

ExecReturned == exec.pc = "returned"

\* how many records of a result list carry the id
RecordsOf(results, id) ==
    Cardinality({i \in 1..Len(results) : results[i].subtask_id = id})

AllIndependent(batch) == \A i \in 1..Len(batch) : batch[i].dependencies = {}

(***************************************************************************)
(* C10: when a strategy returns, its result list holds one record per      *)
(* sub-task of the batch: as many records as tasks, each id once.  Under   *)
(* the parallel strategy every task without dependencies is handed to one  *)
(* gather, so all of them are in flight together before any record is      *)
(* collected, and n independent tasks give n records.                      *)
(***************************************************************************)
C10_OneRecordPerSubtask ==
    /\ ExecReturned =>
          /\ Len(exec.results) = Len(subtasks)
          /\ \A id \in Ids(subtasks) : RecordsOf(exec.results, id) = 1
    /\ (exec.pc = "gather" /\ exec.path = "parallel") =>
          /\ exec.results = <<>>
          /\ Len(exec.settled) = Len(exec.gathered)
          /\ \A i \in 1..Len(subtasks) :
                subtasks[i].dependencies = {} =>
                    \E j \in 1..Len(exec.gathered) : exec.gathered[j] = subtasks[i]
    /\ (ExecReturned /\ exec.path = "parallel" /\ AllIndependent(subtasks)) =>
          /\ Len(exec.gathered) = Len(subtasks)
          /\ Len(exec.results) = Len(subtasks)

\* three independent tasks under the parallel strategy, one of which failed
C10_Witness ==
    /\ ExecReturned
    /\ exec.path = "parallel"
    /\ Len(subtasks) = 3 /\ AllIndependent(subtasks)
    /\ Len(exec.gathered) = 3
    /\ Len(exec.results) = 3
    /\ \E i \in 1..3 : ~exec.results[i].success

RunReturned == run.pc = "returned"

\* a failure left the analysis (its prompt could not be built) or the
\* strategy (the level computation never ended)
FailureEscaped ==
    \/ run.pc \in {"analyzing", "returned"} /\ run.context = Unserializable
    \/ run.pc \in {"executing", "returned"} /\ exec.pc = "raised"

(***************************************************************************)
(* C1: execute_task never raises to its caller, whatever the description,  *)
(* the context, the preferred provider and the behaviour of the remote     *)
(* service on each call: what it returns is an ExecutionResult, and when a *)
(* failure escaped the layers below, one with success false, score 0.0, no *)
(* sub-task result and the message of the exception as its only error.     *)
(***************************************************************************)
C1_ExecuteTaskNeverRaises ==
    /\ run.pc # "raised"
    /\ RunReturned =>
          /\ DOMAIN run.result = {"success", "final_result", "subtask_results",
                                  "validation_score", "errors", "metadata"}
          /\ run.result.success \in BOOLEAN
    /\ (RunReturned /\ FailureEscaped) =>
          /\ run.result.success = FALSE
          /\ run.result.validation_score = 0
          /\ run.result.subtask_results = <<>>
          /\ run.result.errors =
                 <<IF run.context = Unserializable
                   THEN "not JSON serializable"
                   ELSE "maximum recursion depth exceeded">>

\* the hybrid path on a plan whose task depends on itself
C1_Witness ==
    /\ RunReturned
    /\ exec.pc = "raised"
    /\ HasCycle(subtasks)
    /\ run.result.success = FALSE
    /\ run.result.errors = <<"maximum recursion depth exceeded">>

(***************************************************************************)
(* C2: every ExecutionResult execute_task returns, on the normal path and  *)
(* on the failure path, has success true exactly when its validation score *)
(* is at least 0.7; a score of exactly 0.7 is a success.                   *)
(***************************************************************************)
C2_SuccessIffScoreAtLeastThreshold ==
    RunReturned =>
        (run.result.success <=> run.result.validation_score >= SuccessThreshold)

\* a run of the normal path scored exactly 0.7
C2_Witness ==
    /\ RunReturned
    /\ ~FailureEscaped
    /\ run.result.validation_score = SuccessThreshold
    /\ run.result.success

(***************************************************************************)
(* C9 as stated: the strategy of every analysis is one of the three        *)
(* strategy strings, whatever the remote service answered, and             *)
(* execute_task runs the sequential path exactly for the sequential        *)
(* strategy, the parallel path exactly for the parallel one and the hybrid *)
(* path exactly for the hybrid one.                                        *)
(***************************************************************************)
C9_StrategyIsOneOfThree ==
    (run.pc \in {"executing", "assembled", "returned"} /\ ~FailureEscaped) =>
        /\ run.analysis.execution_strategy \in {Sequentiel, Parallele, Hybride}
        /\ exec.path = "sequential" <=> run.analysis.execution_strategy = Sequentiel
        /\ exec.path = "parallel" <=> run.analysis.execution_strategy = Parallele
        /\ exec.path = "hybrid" <=> run.analysis.execution_strategy = Hybride

SubtaskReturned == subtask_call.pc = "returned"

\* _call_ai_api raised on every attempt of the loop, which made at least one
EveryAttemptRaised ==
    /\ subtask_call.max_retries >= 1
    /\ Len(subtask_call.calls) = subtask_call.max_retries
    /\ \A i \in 1..Len(subtask_call.calls) : subtask_call.calls[i].raised

(***************************************************************************)
(* C11: when the remote call raises on every one of the max_retries        *)
(* attempts (max_retries >= 1), _execute_subtask raises nothing: it        *)
(* returns a record with success false whose error is the message of the   *)
(* exception of the last attempt.                                          *)
(***************************************************************************)
C11_ExhaustedRetriesGiveErrorRecord ==
    /\ subtask_call.pc \in {"idle", "loop", "sleeping", "returned"}
    /\ (subtask_call.pc \in {"loop", "sleeping"} /\ subtask_call.max_retries >= 1) =>
          ~EveryAttemptRaised
    /\ (SubtaskReturned /\ EveryAttemptRaised) =>
          /\ subtask_call.result.success = FALSE
          /\ "error" \in DOMAIN subtask_call.result
          /\ subtask_call.result.error =
                 subtask_call.calls[subtask_call.max_retries].message
          /\ subtask_call.result.subtask_id = subtask_call.subtask.id

\* three attempts, each failed by the remote service with its own message
C11_Witness ==
    /\ SubtaskReturned
    /\ subtask_call.max_retries = 3
    /\ EveryAttemptRaised
    /\ subtask_call.calls[3].remote
    /\ subtask_call.result.error = "remote error of attempt 2"

\* _assemble_results has returned in the current run
Assembled == run.pc = "assembled" \/ (RunReturned /\ ~FailureEscaped)

NoSuccessfulRecord(subtask_results) ==
    \A i \in 1..Len(subtask_results) : ~subtask_results[i].success

(***************************************************************************)
(* C12: given a result list without a successful record, empty or all      *)
(* failed, _assemble_results returns the fixed no-success marker and makes *)
(* no remote call.                                                         *)
(***************************************************************************)
C12_NoSuccessGivesMarker ==
    (Assembled /\ NoSuccessfulRecord(run.subtask_results)) =>
        /\ run.final_result = [kind |-> "marker", length |-> 36]
        /\ run.assembly_calls = 0

\* two records, both failed, with a Claude client to ask
C12_Witness ==
    /\ run.pc = "assembled"
    /\ clients.anthropic
    /\ Len(run.subtask_results) = 2
    /\ NoSuccessfulRecord(run.subtask_results)
    /\ run.final_result.kind = "marker"

ScoreReturned == scorer.pc = "returned"

\* the remote scoring answered a JSON object that was read
ScoreRead ==
    /\ clients.openai
    /\ scorer.response.kind = "text"
    /\ scorer.response.json

(***************************************************************************)
(* C13: _validate_coherence always returns a score from 0.0 to 1.0: a      *)
(* score_total below 0 gives 0.0, one above 100 gives 1.0, and every score *)
(* of the failure path is in the range.                                    *)
(***************************************************************************)
C13_ScoreWithinRange ==
    ScoreReturned =>
        /\ scorer.score >= 0 /\ scorer.score <= 1000
        /\ (ScoreRead /\ "score_total" \in DOMAIN scorer.response.data) =>
              /\ scorer.response.data.score_total < 0 => scorer.score = 0
              /\ scorer.response.data.score_total > 100 => scorer.score = 1000

\* a score_total of 150 points
C13_Witness ==
    /\ ScoreReturned
    /\ ScoreRead
    /\ "score_total" \in DOMAIN scorer.response.data
    /\ scorer.response.data.score_total = 150
    /\ scorer.score = 1000


\* C14: get_execution_stats is idempotent and read-only: two calls with no
\* run of execute_task in between return the same snapshot, and a call
\* leaves the ledger as it found it, the two derived keys being written into
\* the returned copy only
C14_StatsReadOnlyAndIdempotent ==
    reader.pc = "read" =>
        /\ execution_stats = reader.before
        /\ DOMAIN execution_stats \cap DerivedKeys = {}
        /\ DerivedKeys \subseteq DOMAIN reader.returned[1]
        /\ \A k \in DOMAIN execution_stats :
               reader.returned[1][k] = execution_stats[k]
        /\ reader.previous # <<>> => reader.previous = reader.returned

\* a second read after a run that processed a task and took time
C14_Witness ==
    /\ reader.pc = "read"
    /\ reader.previous # <<>>
    /\ execution_stats.tasks_processed > 0
    /\ reader.returned[1].success_rate > 0
    /\ reader.returned[1].average_execution_time > 0


\* the ids of the records of a result list
RecordIds(records) == {records[i].subtask_id : i \in 1..Len(records)}

\* the sub-tasks _execute_subtask was called for
CalledIds == {exec.calls[i].subtask_id : i \in 1..Len(exec.calls)}

GatherOpen ==
    /\ exec.pc = "gather"
    /\ \E i \in 1..Len(exec.gathered) : exec.settled[i] = <<>>

\* C15: in the parallel and hybrid paths a batch is a barrier: while a
\* sub-task of the gathered batch has not settled, _execute_subtask has been
\* called for sub-tasks of this batch and of the batches before it only,
\* and neither the result list nor the completed registry holds a sub-task
\* of the batch
C15_BatchIsBarrier ==
    GatherOpen =>
        /\ CalledIds \subseteq RecordIds(exec.results) \cup Ids(exec.gathered)
        /\ RecordIds(exec.results) \cap Ids(exec.gathered) = {}
        /\ DOMAIN exec.completed_tasks \cap Ids(exec.gathered) = {}
        /\ exec.sequential_results = <<>>

\* a level of a hybrid run, one sub-task settled with a success and one
\* still running, while a sub-task that depends on the settled one waits in
\* a later level
C15_Witness ==
    /\ GatherOpen
    /\ exec.path = "hybrid"
    /\ exec.next <= Len(exec.dependency_levels)
    /\ \E i \in 1..Len(exec.gathered) :
           /\ exec.settled[i] # <<>>
           /\ ~IsException(exec.settled[i][1])
           /\ exec.settled[i][1].success
           /\ \E j \in 1..Len(subtasks) :
                  /\ exec.gathered[i].id \in subtasks[j].dependencies
                  /\ subtasks[j].id \notin CalledIds


\* a gather of the run has returned
GatherDone == exec.pc \notin {"idle", "gather"} /\ exec.gathered # <<>>

\* the record of the result list for a sub-task
RecordFor(id) ==
    exec.results[CHOOSE k \in 1..Len(exec.results) : exec.results[k].subtask_id = id]

\* C16: in a gathered batch the failure of a sub-task neither cancels nor
\* prevents its siblings and does not leave the strategy: the gather returns
\* only when every sub-task of the batch has settled, a sub-task that
\* returned a record keeps it, and a sub-task that raised gets a failure
\* record carrying its id
C16_FailureLeavesSiblingsAlone ==
    GatherDone =>
        /\ exec.pc = "raised" =>
              /\ exec.path = "hybrid"
              /\ exec.next <= Len(exec.dependency_levels)
              /\ Len(exec.dependency_levels[exec.next].tasks) = 1
        /\ \A i \in 1..Len(exec.gathered) :
              /\ exec.settled[i] # <<>>
              /\ RecordsOf(exec.results, exec.gathered[i].id) = 1
              /\ LET out == exec.settled[i][1]
                     record == RecordFor(exec.gathered[i].id)
                 IN  IF IsException(out)
                     THEN /\ record.subtask_id = exec.gathered[i].id
                          /\ ~record.success
                          /\ record.error = out.message
                     ELSE record = out

\* a gathered batch where one sub-task raised, one returned a failure
\* record and a sibling succeeded
C16_Witness ==
    /\ GatherDone
    /\ exec.pc # "raised"
    /\ \E i, j \in 1..Len(exec.gathered) :
           /\ IsException(exec.settled[i][1])
           /\ ~IsException(exec.settled[j][1])
           /\ exec.settled[j][1].success
           /\ RecordFor(exec.gathered[j].id).success
           /\ ~RecordFor(exec.gathered[i].id).success


\* the sub-task of the batch a record is about
TaskOfRecord(record) == TaskById(subtasks, record.subtask_id)

\* the remote service answered for the sub-task of the record
RemoteAnswered(record) == Has(record, "provider_used")

\* C17 (as stated): in the hybrid path a sub-task with a declared
\* dependency that is not in the completed registry is recorded as failed,
\* with the dependency failure as its reason, and no remote call is made
\* for it
C17_HybridChecksDependencies ==
    (exec.pc \in {"levels", "gather", "returned"} /\ exec.path = "hybrid") =>
        \A k \in 1..Len(exec.results) :
            LET record == exec.results[k]
            IN  ~DependenciesSatisfied(TaskOfRecord(record), exec.completed_tasks) =>
                    /\ ~record.success
                    /\ ~RemoteAnswered(record)
                    /\ record.error = "Dependances non satisfaites"


\* the ids _execute_sequential had registered when it reached position k
RegisteredBefore(k) ==
    {exec.sequential_results[j].subtask_id :
        j \in {i \in 1..(k - 1) : exec.sequential_results[i].success}}

\* the record of the sequential results for a sub-task
SequentialRecordFor(id) ==
    exec.sequential_results[CHOOSE j \in 1..Len(exec.sequential_results) :
                                exec.sequential_results[j].subtask_id = id]

\* the calls of _execute_subtask made for a sub-task
CallsFor(id) == {i \in 1..Len(exec.calls) : exec.calls[i].subtask_id = id}

SequentialRun == exec.pc \in {"sequential", "returned"} /\ exec.path = "sequential"

\* C18: in the sequential path a sub-task with a declared dependency that
\* is not in the registry gets the failure record of the dependency error,
\* no call of _execute_subtask and the status failed, and the loop goes on
\* to the end of the order; a sub-task whose dependencies are registered is
\* called once, with a context holding the result of each of them
C18_SequentialDependencyCheck ==
    SequentialRun =>
        /\ Len(exec.sequential_results) = exec.next - 1
        /\ exec.pc = "returned" => exec.next - 1 = Len(subtasks)
        /\ \A k \in 1..Len(exec.sequential_results) :
              LET subtask == exec.sorted_subtasks[k]
                  record  == exec.sequential_results[k]
              IN  /\ record.subtask_id = subtask.id
                  /\ IF subtask.dependencies \subseteq RegisteredBefore(k)
                     THEN /\ Cardinality(CallsFor(subtask.id)) = 1
                          /\ exec.status[subtask.id] =
                                 IF record.success THEN "completed" ELSE "failed"
                          /\ \A i \in CallsFor(subtask.id) :
                                subtask.dependencies # {} =>
                                   /\ Has(exec.calls[i].context, "dependencies_results")
                                   /\ DOMAIN exec.calls[i].context.dependencies_results
                                          = subtask.dependencies
                                   /\ \A dep_id \in subtask.dependencies :
                                         exec.calls[i].context.dependencies_results[dep_id]
                                             = SequentialRecordFor(dep_id).result
                     ELSE /\ record = ErrorRecord(subtask.id, "Dependances non satisfaites")
                          /\ CallsFor(subtask.id) = {}
                          /\ exec.status[subtask.id] = "failed"

\* a returned sequential run where a sub-task failed on its dependencies
\* and another succeeded with the result of its dependency in its context
C18_Witness ==
    /\ SequentialRun
    /\ exec.pc = "returned"
    /\ Len(exec.sequential_results) = Len(subtasks)
    /\ \E k, j \in 1..Len(exec.sequential_results) :
          /\ exec.sequential_results[k] =
                 ErrorRecord(exec.sorted_subtasks[k].id, "Dependances non satisfaites")
          /\ exec.sequential_results[j].success
          /\ exec.sorted_subtasks[j].dependencies # {}
          /\ \A i \in CallsFor(exec.sorted_subtasks[j].id) :
                Has(exec.calls[i].context, "dependencies_results")


SubtaskCalled == subtask_call.pc # "idle"

\* the description of the sub-task of the call holds "code" or "python",
\* in any case of letters
KeywordInDescription ==
    subtask_call.subtask.description \in
        {"write the python module", "Fix the CODE of the parser"}

\* C19: _select_provider returns the requested provider when a specific one
\* is requested; in AUTO mode, on an orchestrator that was constructed (one
\* client at least), it returns a provider that has a client: gpt when the
\* description holds a keyword and claude otherwise, and the other one when
\* that one has no client
C19_SelectedProviderIsConfigured ==
    SubtaskCalled =>
        LET preferred == subtask_call.preferred_provider
            selected  == subtask_call.provider
        IN  /\ preferred # "auto" => selected = preferred
            /\ preferred = "auto" =>
                  /\ ProviderAvailable(selected, clients)
                  /\ (KeywordInDescription /\ clients.openai) => selected = "gpt"
                  /\ (KeywordInDescription /\ ~clients.openai) => selected = "claude"
                  /\ (~KeywordInDescription /\ clients.anthropic) => selected = "claude"
                  /\ (~KeywordInDescription /\ ~clients.anthropic) => selected = "gpt"

\* AUTO on a description with a keyword in capitals, without an OpenAI
\* client: the call went to claude and was answered
C19_Witness ==
    /\ SubtaskCalled
    /\ subtask_call.pc = "returned"
    /\ subtask_call.preferred_provider = "auto"
    /\ subtask_call.subtask.description = CapitalDescription
    /\ ~clients.openai
    /\ subtask_call.provider = "claude"
    /\ subtask_call.result.success


DetectReturned == detector.pc = "returned"

\* the value read for a variable of the environment, "" when it is not set
RawKey(variable) == IF variable = <<>> THEN <<>> ELSE variable[1]

\* the value is empty once its leading and trailing blanks are removed
EmptyAfterTrim(w) == \A i \in 1..Len(w) : w[i] = Blank

\* t is w without its leading and trailing blanks
IsTrimOf(t, w) ==
    \E a \in 1..(Len(w) + 1), b \in 0..Len(w) :
        /\ t = SubSeq(w, a, b)
        /\ \A i \in 1..Len(w) : (i < a \/ i > b) => w[i] = Blank
        /\ t # <<>> => (t[1] # Blank /\ t[Len(t)] # Blank)

\* C20: detect_llm_config returns stub mode (is_stub true, mode "stub",
\* is_stub_mode() true) exactly when OPENAI_API_KEY and ANTHROPIC_API_KEY
\* are both empty after trimming; otherwise it returns a live config
\* (is_stub false, mode "live") that carries the two trimmed keys
C20_StubIffNoKey ==
    DetectReturned =>
        LET openai    == RawKey(detector.environ.OPENAI_API_KEY)
            anthropic == RawKey(detector.environ.ANTHROPIC_API_KEY)
            config    == detector.returned.config
            is_stub   == detector.returned.is_stub
        IN  /\ is_stub <=> (EmptyAfterTrim(openai) /\ EmptyAfterTrim(anthropic))
            /\ is_stub => (config.mode = "stub" /\ config.is_stub_mode)
            /\ ~is_stub =>
                  /\ config.mode = "live"
                  /\ ~config.is_stub_mode
                  /\ IsTrimOf(config.openai_key, openai)
                  /\ IsTrimOf(config.anthropic_key, anthropic)

\* a key of blanks only beside a key with blanks around it: live, with the
\* empty key and the trimmed one
C20_Witness ==
    /\ DetectReturned
    /\ detector.environ.OPENAI_API_KEY = <<<<Blank, Blank>>>>
    /\ detector.environ.ANTHROPIC_API_KEY = <<<<Blank, "k", Blank>>>>
    /\ ~detector.returned.is_stub
    /\ detector.returned.config.openai_key = <<>>
    /\ detector.returned.config.anthropic_key = <<"k">>


HybridRun == exec.pc \in {"levels", "gather", "returned"} /\ exec.path = "hybrid"

\* the level _analyze_dependency_levels gave a sub-task of the hybrid run
LevelInRun(id) ==
    LET k == CHOOSE i \in 1..Len(exec.dependency_levels) :
                 \E j \in 1..Len(exec.dependency_levels[i].tasks) :
                     exec.dependency_levels[i].tasks[j].id = id
    IN  exec.dependency_levels[k].level

\* C21 (as stated): _execute_hybrid goes through the levels in ascending
\* order whatever the order of the batch: a sub-task is called only when
\* every sub-task of a lower level has its record
C21_HybridLevelsAscend ==
    HybridRun =>
        /\ \A a, b \in 1..Len(exec.dependency_levels) :
              a < b => exec.dependency_levels[a].level < exec.dependency_levels[b].level
        /\ \A i \in 1..Len(exec.calls) : \A t \in 1..Len(subtasks) :
              LevelInRun(subtasks[t].id) < LevelInRun(exec.calls[i].subtask_id) =>
                  subtasks[t].id \in CalledIds


\* the attempts of the call that reached the remote service
RemoteCallsMade ==
    {i \in 1..Len(subtask_call.calls) : subtask_call.calls[i].remote}

\* C22: one execution of _execute_subtask makes at most max_retries remote
\* calls, none after the first that returns, and sleeps 2^attempt seconds
\* (1, 2, 4, ...) after each failed attempt but the last of the max_retries,
\* after which it returns without a sleep
C22_RetriesAndBackoff ==
    SubtaskCalled =>
        /\ Len(subtask_call.calls) <= subtask_call.max_retries
        /\ Cardinality(RemoteCallsMade) <= subtask_call.max_retries
        /\ \A i \in 1..Len(subtask_call.calls) :
              /\ subtask_call.calls[i].attempt = i - 1
              /\ i < Len(subtask_call.calls) => subtask_call.calls[i].raised
        /\ \A i \in 1..Len(subtask_call.sleeps) :
              /\ subtask_call.calls[i].raised
              /\ i < subtask_call.max_retries
              /\ subtask_call.sleeps[i] = 2 ^ (i - 1)
        /\ subtask_call.pc \in {"loop", "sleeping"} =>
              Len(subtask_call.sleeps) = Len(subtask_call.calls)
        /\ (SubtaskReturned /\ subtask_call.calls # <<>>) =>
              Len(subtask_call.sleeps) = Len(subtask_call.calls) - 1
        /\ (SubtaskReturned /\ subtask_call.calls = <<>>) =>
              subtask_call.sleeps = <<>>

\* four attempts that reached the remote service and failed: sleeps of 1, 2
\* and 4 seconds, none after the fourth
C22_Witness ==
    /\ SubtaskReturned
    /\ subtask_call.max_retries = 4
    /\ Cardinality(RemoteCallsMade) = 4
    /\ \A i \in 1..Len(subtask_call.calls) : subtask_call.calls[i].raised
    /\ subtask_call.sleeps = <<1, 2, 4>>


\* C23 (as stated): when one of the three strategies returns, no sub-task
\* of the batch is pending: its status is completed when its record has
\* success true and failed otherwise
C23_NoSubtaskLeftPending ==
    ExecReturned =>
        \A i \in 1..Len(subtasks) :
            /\ exec.status[subtasks[i].id] # "pending"
            /\ RecordsOf(exec.results, subtasks[i].id) = 1 =>
                  exec.status[subtasks[i].id] =
                      IF RecordFor(subtasks[i].id).success THEN "completed" ELSE "failed"


\* the scoring call raised or its answer could not be read as JSON
ScoreFailed ==
    \/ ~clients.openai
    \/ scorer.response.kind = "raise"
    \/ ~scorer.response.json

\* the successful records of the list the score was asked for
SuccessesScored ==
    Cardinality({i \in 1..Len(scorer.subtask_results) :
                    scorer.subtask_results[i].success})

\* min(0.8, successes / total), 0.5 without a record, in thousandths
RatioScore ==
    IF Len(scorer.subtask_results) = 0 THEN 500
    ELSE IF (SuccessesScored * 1000) \div Len(scorer.subtask_results) > 800 THEN 800
    ELSE (SuccessesScored * 1000) \div Len(scorer.subtask_results)

\* C24 (as stated): on a failed scoring the score is 0.2 when the final
\* result is empty or has fewer than 50 characters, and otherwise 0.5
\* without sub-task results and min(0.8, successes / total) with some
C24_AsStated ==
    (ScoreReturned /\ ScoreFailed) =>
        scorer.score = IF scorer.final_result.length < 50 THEN 200 ELSE RatioScore

\* C24 (amended): on a failed scoring the score is 0.2 when the final
\* result is empty or has fewer than 50 characters once its leading and
\* trailing blanks are removed, and otherwise 0.5 without sub-task results
\* and min(0.8, successes / total) with some
C24_FallbackScoreOnStrippedLength ==
    (ScoreReturned /\ ScoreFailed) =>
        scorer.score =
            IF scorer.final_result.length - Get(scorer.final_result, "padding", 0) < 50
            THEN 200 ELSE RatioScore

\* a failed scoring of a final result of 55 characters, 45 without its
\* blanks, with a successful record: 0.2
C24_Witness ==
    /\ ScoreReturned
    /\ ScoreFailed
    /\ scorer.final_result = PaddedText
    /\ SuccessesScored > 0
    /\ scorer.score = 200


LevelsRaised == leveller.pc = "raised"

\* the tasks of the batch that depend on themselves, directly or not
OnCycle(batch) == {id \in Ids(batch) : id \in TransitiveDeps(batch, id)}

\* C25: _analyze_dependency_levels returns on every batch without a
\* dependency cycle; on a batch with a cycle, a self-dependency included,
\* it never returns: the recursion does not end, and no task of a cycle is
\* ever given a level
C25_LevelsReturnIffAcyclic ==
    /\ LevelsReturned =>
          /\ OnCycle(subtasks) = {}
          /\ leveller.st.next = Len(subtasks) + 1
    /\ LevelsRaised => OnCycle(subtasks) # {}
    /\ leveller.pc # "idle" =>
          /\ leveller.st.next <= Len(subtasks) + 1
          /\ \A id \in OnCycle(subtasks) :
                /\ id \notin DOMAIN leveller.st.task_levels
                /\ Occurrences(leveller.st.levels, id) = 0

\* a self-dependent task after a task that got its level: the recursion
\* did not end
C25_Witness ==
    /\ LevelsRaised
    /\ leveller.st.levels # <<>>
    /\ \E i \in 1..Len(subtasks) : subtasks[i].id \in subtasks[i].dependencies


ParallelRun ==
    exec.pc \in {"gather", "sequential", "returned"} /\ exec.path = "parallel"

\* the sub-tasks of the batch with a non-empty dependency list
Dependents == {subtasks[i].id : i \in {j \in 1..Len(subtasks) : subtasks[j].dependencies # {}}}

\* C26: under the parallel strategy _execute_subtask is never called for a
\* sub-task with dependencies: the sequential path starts from an empty
\* registry and gives each of them the failure record of unsatisfied
\* dependencies, even when all its dependencies succeeded in the gather
C26_ParallelDependentsAlwaysFail ==
    ParallelRun =>
        /\ CalledIds \cap Dependents = {}
        /\ \A k \in 1..Len(exec.sequential_results) :
              /\ exec.sequential_results[k].subtask_id \in Dependents
              /\ exec.sequential_results[k] =
                     ErrorRecord(exec.sequential_results[k].subtask_id,
                                 "Dependances non satisfaites")
        /\ exec.pc \in {"sequential", "returned"} => exec.completed_tasks = NoResults
        /\ ExecReturned =>
              \A id \in Dependents :
                  /\ RecordsOf(exec.results, id) = 1
                  /\ RecordFor(id) = ErrorRecord(id, "Dependances non satisfaites")

\* a returned parallel run: a sub-task whose only dependency succeeded in
\* the gather has the failure record
C26_Witness ==
    /\ ParallelRun
    /\ ExecReturned
    /\ \E i, j \in 1..Len(subtasks) :
          /\ subtasks[j].dependencies = {subtasks[i].id}
          /\ subtasks[i].dependencies = {}
          /\ RecordFor(subtasks[i].id).success
          /\ ~RecordFor(subtasks[j].id).success


C28_LedgerSums ==
    execution_stats.tasks_processed =
        execution_stats.successful_executions + execution_stats.failed_executions


\* the orchestrator was built with the OpenAI key only
OpenAIOnly == clients.openai /\ ~clients.anthropic

\* C29 (as stated): with the OpenAI backend alone every call of the
\* analysis gives the fallback analysis, and execute_task runs exactly one
\* sub-task through the sequential path, whatever the task
C29_OpenAIOnlyRunsFallback ==
    (RunReturned /\ OpenAIOnly) =>
        /\ Has(run, "analysis")
        /\ run.analysis = CreateFallbackAnalysis(run.task_description, run.context)
        /\ exec.pc = "returned"
        /\ exec.path = "sequential"
        /\ Len(run.result.subtask_results) = 1

\* a strategy function has been called
StrategyCalled == exec.pc # "idle"

\* the entries of the sub-task's own context, none when it has no context
OwnEntries(subtask) ==
    IF subtask.context = Null THEN EmptyDict ELSE subtask.context

\* the declared dependencies of a sub-task that are in a registry
DeclaredPresent(subtask, completed_tasks) ==
    {dep_id \in subtask.dependencies : dep_id \in DOMAIN completed_tasks}

\* C30: _build_execution_context leaves the sub-task's own context dict
\* (the one dict all the sub-tasks of an analysis share) and the registry
\* as they were, and returns a new dict with the entries of the sub-task's
\* context and, exactly when a declared dependency is in the registry, the
\* key dependencies_results holding the result of each declared dependency
\* in the registry and of nothing else
C30_BuildContextIsPure ==
    StrategyCalled =>
        /\ exec.objects = ContextObjects(subtasks)
        /\ \A k \in 1..Len(exec.built) :
              LET call    == exec.built[k]
                  subtask == TaskById(subtasks, call.subtask_id)
                  present == DeclaredPresent(subtask, call.completed_tasks)
              IN  /\ call.context.copied = OwnEntries(subtask)
                  /\ Has(call.context, "dependencies_results") <=> present # {}
                  /\ DOMAIN call.context \subseteq {"copied", "dependencies_results"}
                  /\ present # {} =>
                        /\ Has(call.context, "dependencies_results")
                        /\ DOMAIN call.context.dependencies_results = present
                        /\ \A dep_id \in present :
                              call.context.dependencies_results[dep_id]
                                  = call.completed_tasks[dep_id].result
                  /\ \A id \in DOMAIN call.completed_tasks :
                        /\ id \in DOMAIN exec.completed_tasks
                        /\ exec.completed_tasks[id] = call.completed_tasks[id]

\* a returned strategy whose sub-tasks share the caller's dict: one context
\* was built from an empty registry and has no dependencies_results, a later
\* one was built with its dependency registered and has its result
C30_Witness ==
    /\ StrategyCalled
    /\ exec.pc = "returned"
    /\ \E j, k \in 1..Len(exec.built) :
          /\ j < k
          /\ TaskById(subtasks, exec.built[j].subtask_id).context = "a context"
          /\ TaskById(subtasks, exec.built[k].subtask_id).context = "a context"
          /\ DOMAIN exec.built[j].completed_tasks = {}
          /\ ~Has(exec.built[j].context, "dependencies_results")
          /\ exec.built[j].subtask_id \in DOMAIN exec.built[k].completed_tasks
          /\ Has(exec.built[k].context, "dependencies_results")
          /\ exec.objects["a context"] = [copied |-> "a context"]

=============================================================================
